---- MODULE Spec2Model ----
(***************************************************************************)
(* A model of the submission/synchronization core of vulkan-rs:            *)
(*   command.rs  CommandPool, CommandBufferBuilder, CommandBuffer          *)
(*   sync.rs     GpuFuture and its variants, SubmitState, Fence, Resource  *)
(*   device.rs   Queue::submit / submit_after and their futures            *)
(*                                                                         *)
(* Native (Vulkan) calls are modelled as succeeding, with two exceptions   *)
(* whose result is an input: the wait on a fence (wait_for_fences, whose   *)
(* error is unwrap()ed inside Fence::wait and so inside Drop for Fence)    *)
(* and the swapchain acquire (whose error is returned with `?`).  A panic  *)
(* (assert!, unwrap, todo!, unimplemented!) is a "fault": the operation    *)
(* is recorded in `last` with fault = TRUE and the values it had taken by  *)
(* move are dropped, as unwinding does.                                    *)
(*                                                                         *)
(* Arc<T> is modelled by an explicit strong count; the destructor of the   *)
(* pointee runs in the step that brings the count to zero.                 *)
(***************************************************************************)
EXTENDS Integers, Sequences, FiniteSets, TLC

\* ------------------------------------------------------------------ bounds
NThreads == 2
MaxHandles == 2
MaxAllocated == 4
MaxCmds == 2
MaxOps == 1
NPipelines == 1
MaxFutures == 2
MaxNodes == 4
MaxJoined == 5
MaxFences == 1
MaxSems == 2
NQueues == 2

Threads == 1..NThreads
Slots == 1..MaxCmds
FutSlots == 1..MaxFutures
Fences == 1..MaxFences
Sems == 1..MaxSems
Queues == 1..NQueues
\* The resources, by kind: graphics pipelines, two buffers of u32 (64 and 128
\* bytes), an image, a pipeline layout, a descriptor set, a render pass and a
\* framebuffer.
Pipelines == 1..NPipelines
BufSmall == NPipelines + 1
BufLarge == NPipelines + 2
Img == NPipelines + 3
PLayout == NPipelines + 4
DescSet == NPipelines + 5
RPass == NPipelines + 6
FBuf == NPipelines + 7
\* The CommandPool itself, an Arc as the resources are.
CmdPool == NPipelines + 8
Buffers == {BufSmall, BufLarge}
Images == {Img}
Resources == 1..(NPipelines + 8)

VARIABLES
    created,    \* created[t]: thread t's native pool exists (pools.get_or ran)
    avail,      \* avail[t][sec]: CommandPoolInner.cmds of thread t, per level
    size,       \* size[t][sec]: primary_size / secondary_size of thread t
    free,       \* free[p][sec]: CommandPool.free, keyed by native pool (= owner)
    pc,         \* pc[t]: "idle", or "drain" between reset's two critical sections
    cb,         \* cb[c]: the builder or built command buffer in slot c
    leaked,     \* handles whose builder was dropped without build()
    resSt,      \* resSt[r]: "alive" or "destroyed" (the resource's Drop ran)
    resRc,      \* resRc[r]: Arc strong count of resource r
    userRes,    \* userRes[r]: the caller still holds its own Arc of r
    layout,     \* layout[i]: Image.layout of image i
    fut,        \* fut[i]: the future the caller holds in slot i
    fence,      \* fence[f]: the fence f
    semRc,      \* semRc[s]: Arc strong count of semaphore s (0: not alive)
    recorded,   \* recorded[i]: the native barriers recorded on image i so far,
                \* in the order of the native calls (not a field of the code)
    quota,      \* quota[t][sec]: handles that the last successful reset of
                \* thread t made available and record has not yet handed out
    last        \* the last operation: name, thread, fault, native calls issued

vars == <<created, avail, size, free, pc, cb, leaked, resSt, resRc, userRes, layout,
          recorded, fut, fence, semRc, quota, last>>

\* ----------------------------------------------------------------- values
\* A native command-buffer handle: the pool it was allocated from, the level it
\* was allocated at, and its number among the handles of that pool and level.
Handle(p, sec, i) == [pool |-> p, sec |-> sec, idx |-> i]
NoHandle == Handle(0, FALSE, 0)

\* CommandBufferBuilder<SEC> (st = "rec"; st = "barrier" while a
\* pipeline_barrier call on it is in progress, the builder having moved into
\* the call) or CommandBuffer<SEC> (st = "built").
\* `used`, `nops` and `thr` are not fields of the code: the resources whose
\* native handles the recorded commands refer to, the number of commands, and
\* the thread that holds the builder (a builder is a value that moves).
\* The locals of a pipeline_barrier call in progress on a builder: the
\* barriers not yet processed, the layout loaded for the first of them, the
\* native barriers built and the images pushed so far.
NoCall ==
    [pc |-> "idle", args |-> <<>>, rest |-> <<>>, old |-> "", vks |-> <<>>]

NoCmd ==
    [st |-> "none", vk |-> NoHandle, vkpool |-> 0, sec |-> FALSE,
     resources |-> <<>>, inherit |-> <<>>, used |-> {}, nops |-> 0, rc |-> 0,
     user |-> FALSE, thr |-> 0, call |-> NoCall]

\* One variant of enum Resource holding an Arc.
Entry(kind, ref) == [kind |-> kind, ref |-> ref]

\* What the last operation was: its name, the calling thread where the code
\* depends on it (0 otherwise), whether it panicked, the native calls it
\* issued and the arguments of the native call the claims are about.
Op(name, t, fault, calls, data) ==
    [op |-> name, t |-> t, fault |-> fault, calls |-> calls, data |-> data]

\* The part of the state that dropping references changes.
Heap == [cb |-> cb, free |-> free, resSt |-> resSt, resRc |-> resRc]

\* ------------------------------------------------- Arc and the destructors
\* A drop that runs the destructor whatever the strong count.
ReleaseRes_Eager(H, r) ==
    [H EXCEPT !.resRc[r] = @ - 1, !.resSt[r] = "destroyed"]

\* Arc<resource>::drop: the strong count goes down, the destructor runs at 0.
ReleaseRes(H, r) ==
    LET n == H.resRc[r] - 1
    IN  [H EXCEPT !.resRc[r] = n,
                  !.resSt[r] = IF n = 0 THEN "destroyed" ELSE @]

\* Drop for CommandPool: destroy_command_pool for every native pool of
\* pools.iter_mut(), in a step that takes the last Arc of the pool away.
PoolDestroyCalls ==
    IF resSt[CmdPool] = "alive" /\ resSt'[CmdPool] = "destroyed"
    THEN [i \in 1..Cardinality({t \in Threads : created[t]}) |-> "destroy_command_pool"]
    ELSE <<>>

\* A builder that takes no Arc of the pool.
PoolClone_None(r) == 0

\* self.clone() in record and record_secondary: one more Arc of the pool.
PoolClone(r) == IF r = CmdPool THEN 1 ELSE 0

RECURSIVE ReleaseEntries(_, _)
RECURSIVE ReleaseCmd(_, _)

\* Dropping one Resource value of a ledger.
ReleaseEntry(H, e) ==
    IF e.kind = "CommandBufferSecondary" THEN ReleaseCmd(H, e.ref)
    ELSE ReleaseRes(H, e.ref)

\* Dropping a Vec<Resource>: its elements in order.
ReleaseEntries(H, es) ==
    IF es = <<>> THEN H
    ELSE ReleaseEntries(ReleaseEntry(H, Head(es)), Tail(es))

\* A drop of a command buffer that returns no handle.
CommandBufferDrop_Lost(H, c) == H

\* A drop that pushes on the primary list whatever SEC is.
CommandBufferDrop_Primary(H, c) ==
    LET b == H.cb[c]
    IN  [H EXCEPT !.free[b.vkpool][FALSE] = Append(@, b.vk)]

\* A drop that pushes on the free-list entry of another native pool, as one
\* keyed by the dropping thread does when that is not the recording thread.
CommandBufferDrop_OtherPool(H, c) ==
    LET b == H.cb[c]
    IN  [H EXCEPT !.free[(b.vkpool % NThreads) + 1][b.sec] = Append(@, b.vk)]

\* impl Drop for CommandBuffer<SEC>: push self.vk on the free-list entry of
\* self.vkpool, on the list chosen by SEC::BOOL.
CommandBufferDrop(H, c) ==
    LET b == H.cb[c]
    IN  [H EXCEPT !.free[b.vkpool][b.sec] = Append(@, b.vk)]

\* Arc<CommandBuffer>::drop: at strong count 0, Drop::drop runs and then the
\* fields are dropped: the Arc of the pool, then the ledger.
ReleaseCmd(H, c) ==
    LET n == H.cb[c].rc - 1
    IN  IF n > 0 THEN [H EXCEPT !.cb[c].rc = n]
        ELSE LET H1 == CommandBufferDrop(H, c)
                 es == H.cb[c].resources
             IN  ReleaseEntries(ReleaseRes([H1 EXCEPT !.cb[c] = NoCmd], CmdPool), es)

\* ------------------------------------------------------------ CommandPool
\* CommandPool::get_pool: the thread's native pool, created on first use
\* together with its free-list entry.
GetPoolCalls(t) == IF created[t] THEN <<>> ELSE <<"create_command_pool">>

\* CommandPool::get_cmdbuf: the batch allocated when the thread's list of the
\* level is empty.
\* A batch of one handle at every allocation.
BatchSize_One(t, sec) == 1

BatchSize(t, sec) == IF size[t][sec] = 0 THEN 1 ELSE size[t][sec]

NeedsAlloc(t, sec) == Len(avail[t][sec]) = 0

NewBatch(t, sec) ==
    [i \in 1..BatchSize(t, sec) |-> Handle(t, sec, size[t][sec] + i)]

\* The thread's list of the level after get_cmdbuf's allocation, before pop().
Refilled(t, sec) == IF NeedsAlloc(t, sec) THEN NewBatch(t, sec) ELSE avail[t][sec]

SizeAfter(t, sec) ==
    IF NeedsAlloc(t, sec) THEN size[t][sec] + BatchSize(t, sec) ELSE size[t][sec]

\* Handles allocated so far, over all native pools and both levels.
TotalSize ==
    LET RECURSIVE Sum(_)
        Sum(n) == IF n = 0 THEN 0 ELSE size[n][FALSE] + size[n][TRUE] + Sum(n - 1)
    IN  Sum(NThreads)

Range(s) == {s[i] : i \in 1..Len(s)}

\* Vec::pop: the last element.
Popped(s) == s[Len(s)]
\* A pop that leaves the element in the list.
PopRest_Keep(s) == s

PopRest(s) == SubSeq(s, 1, Len(s) - 1)

FreeSlots == {c \in Slots : cb[c].st = "none"}
NewSlot == CHOOSE c \in FreeSlots : \A d \in FreeSlots : c <= d

\* CommandPool::record (sec = FALSE, inherit = <<>>) and record_secondary
\* (sec = TRUE): get_cmdbuf, begin, CommandBufferBuilder::new.
\* max caps the handles allocated over all native pools.
RecordWithin(t, sec, inherit, max) ==
    /\ pc[t] = "idle"
    /\ userRes[CmdPool]
    /\ FreeSlots # {}
    /\ TotalSize - size[t][sec] + SizeAfter(t, sec) <= max
    /\ sec = FALSE => inherit = <<>>
    /\ \A i \in 1..Len(inherit) : userRes[inherit[i]]
    /\ created' = [created EXCEPT ![t] = TRUE]
    /\ size' = [size EXCEPT ![t][sec] = SizeAfter(t, sec)]
    /\ avail' = [avail EXCEPT ![t][sec] = PopRest(Refilled(t, sec))]
    /\ cb' = [cb EXCEPT ![NewSlot] =
                [NoCmd EXCEPT !.st = "rec", !.vk = Popped(Refilled(t, sec)),
                              !.vkpool = t, !.sec = sec, !.inherit = inherit,
                              !.thr = t]]
    /\ resRc' = [r \in Resources |->
                    resRc[r] + Cardinality({i \in 1..Len(inherit) : inherit[i] = r})
                             + PoolClone(r)]
    /\ last' = Op(IF sec THEN "record_secondary" ELSE "record", t, FALSE,
                  GetPoolCalls(t)
                  \o (IF NeedsAlloc(t, sec) THEN <<"allocate_command_buffers">> ELSE <<>>)
                  \o <<"begin_command_buffer">>, <<>>)
    /\ quota' = [quota EXCEPT ![t][sec] = IF @ > 0 THEN @ - 1 ELSE 0]
    /\ UNCHANGED <<fut, fence, semRc, free, pc, leaked, resSt, userRes, layout, recorded>>

Record(t, sec, inherit) == RecordWithin(t, sec, inherit, MaxHandles)

\* The first assertion of CommandPool::reset alone.
ResetAllowed_PrimaryOnly(t) ==
    Len(avail[t][FALSE]) + Len(free[t][FALSE]) = size[t][FALSE]

\* The assertions of CommandPool::reset.
ResetAllowed(t) ==
    /\ Len(avail[t][FALSE]) + Len(free[t][FALSE]) = size[t][FALSE]
    /\ Len(avail[t][TRUE]) + Len(free[t][TRUE]) = size[t][TRUE]

\* CommandPool::reset up to and including the native reset: get_pool, the
\* first critical section, the two assertions, reset_command_pool.
ResetBegin(t) ==
    /\ pc[t] = "idle"
    /\ userRes[CmdPool]
    /\ created' = [created EXCEPT ![t] = TRUE]
    /\ IF ResetAllowed(t)
       THEN /\ pc' = [pc EXCEPT ![t] = "drain"]
            /\ last' = Op("reset", t, FALSE, GetPoolCalls(t) \o <<"reset_command_pool">>, <<>>)
       ELSE /\ pc' = pc
            /\ last' = Op("reset", t, TRUE, GetPoolCalls(t), <<>>)
    /\ UNCHANGED <<fut, fence, semRc, avail, size, free, cb, leaked, resSt, resRc, userRes, layout, recorded, quota>>

\* A reset that replaces the thread's list by the free-list.
Drained_FreeOnly(t, sec) == free[t][sec]

\* pool.cmds.primary.extend(free.primary.drain(..)), and the same for secondary.
Drained(t, sec) == avail[t][sec] \o free[t][sec]

\* CommandPool::reset, second critical section: the free lists are drained
\* into the thread's lists.
ResetDrain(t) ==
    /\ pc[t] = "drain"
    /\ avail' = [avail EXCEPT ![t] = [sec \in BOOLEAN |-> Drained(t, sec)]]
    /\ free' = [free EXCEPT ![t] = [sec \in BOOLEAN |-> <<>>]]
    /\ pc' = [pc EXCEPT ![t] = "idle"]
    /\ quota' = [quota EXCEPT ![t] = size[t]]
    /\ last' = Op("reset_done", t, FALSE, <<>>, <<>>)
    /\ UNCHANGED <<fut, fence, semRc, created, size, cb, leaked, resSt, resRc, userRes, layout, recorded>>

\* ------------------------------------------------- CommandBufferBuilder
Recording(c) == cb[c].st = "rec"
Built(c) == cb[c].st = "built"

\* The bound on the commands appended to one builder.
CanAppend(c) == Recording(c) /\ cb[c].nops < MaxOps

SetHeap(H) ==
    /\ cb' = H.cb
    /\ free' = H.free
    /\ resSt' = H.resSt
    /\ resRc' = H.resRc

\* InheritanceInfo: the Arcs it holds, as they are dropped.
InheritEntries(c) ==
    [i \in 1..Len(cb[c].inherit) |->
        Entry(IF i = 1 THEN "RenderPass" ELSE "Framebuffer", cb[c].inherit[i])]

\* CommandBufferBuilder::build: end_command_buffer, then the handle and the
\* ledger move into an Arc<CommandBuffer>; the builder's other fields (the
\* inheritance info among them) are dropped.
Build(c) ==
    /\ Recording(c)
    /\ LET H1 == [Heap EXCEPT !.cb[c].st = "built", !.cb[c].rc = 1,
                              !.cb[c].user = TRUE, !.cb[c].inherit = <<>>,
                              !.cb[c].thr = 0]
       IN  SetHeap(ReleaseEntries(H1, InheritEntries(c)))
    /\ last' = Op("build", cb[c].thr, FALSE, <<"end_command_buffer">>, <<>>)
    /\ UNCHANGED <<fut, fence, semRc, created, avail, size, pc, leaked, userRes, layout, recorded, quota>>

\* The fields of a builder being dropped: CommandBufferBuilder has no Drop, so
\* the inheritance info and the ledger are dropped and the native handle goes
\* nowhere.
BuilderDropped(c) ==
    LET H1 == ReleaseRes([Heap EXCEPT !.cb[c] = NoCmd], CmdPool)
        H2 == ReleaseEntries(H1, InheritEntries(c))
    IN  ReleaseEntries(H2, cb[c].resources)

\* A builder dropped without build().
DropBuilder(c) ==
    /\ Recording(c)
    /\ SetHeap(BuilderDropped(c))
    /\ leaked' = leaked \cup {cb[c].vk}
    /\ last' = Op("drop_builder", 0, FALSE, PoolDestroyCalls, <<>>)
    /\ UNCHANGED <<fut, fence, semRc, created, avail, size, pc, userRes, layout, recorded, quota>>

\* The builder of slot c is moved to thread t (CommandBufferBuilder is Send:
\* every field is, and no impl removes the auto trait).
SendBuilder(c, t) ==
    /\ Recording(c)
    /\ cb[c].thr # t
    /\ cb' = [cb EXCEPT ![c].thr = t]
    /\ last' = Op("send_builder", t, FALSE, <<>>, <<>>)
    /\ UNCHANGED <<fut, fence, semRc, created, avail, size, free, pc, leaked, resSt,
                   resRc, userRes, layout, recorded, quota>>

\* How many entries of es hold resource x (isSec = FALSE) or the secondary
\* command buffer x (isSec = TRUE).
Pushes(es, isSec, x) ==
    Cardinality({i \in 1..Len(es) :
                    /\ (es[i].kind = "CommandBufferSecondary") = isSec
                    /\ es[i].ref = x})

\* An append operation that returns: the native call `call` was recorded, it
\* refers to the resources usedSet, and self.resources.push ran for the
\* entries of `pushed`, in order.  Every Arc pushed was passed by the caller
\* by value (a clone of its own).
AppendOk(c, name, call, data, usedSet, pushed) ==
    /\ cb' = [d \in Slots |->
                IF d = c
                THEN [cb[c] EXCEPT !.resources = @ \o pushed,
                                   !.used = @ \cup usedSet,
                                   !.nops = @ + 1]
                ELSE [cb[d] EXCEPT !.rc = @ + Pushes(pushed, TRUE, d)]]
    /\ resRc' = [r \in Resources |-> resRc[r] + Pushes(pushed, FALSE, r)]
    /\ last' = Op(name, cb[c].thr, FALSE, <<call>>, data)
    /\ UNCHANGED <<fut, fence, semRc, created, avail, size, free, pc, leaked, resSt, userRes, quota>>

\* An append operation that panics before its native call: unwinding drops
\* the builder it took by value, and the arguments.
AppendFault(c, name, data) ==
    /\ SetHeap(BuilderDropped(c))
    /\ leaked' = leaked \cup {cb[c].vk}
    /\ last' = Op(name, cb[c].thr, TRUE, PoolDestroyCalls, data)
    /\ UNCHANGED <<fut, fence, semRc, created, avail, size, pc, userRes, quota>>

\* CommandBufferBuilder::begin_render_pass.
BeginRenderPass(c, rp, fb) ==
    /\ CanAppend(c)
    /\ userRes[rp] /\ userRes[fb]
    /\ AppendOk(c, "begin_render_pass", "cmd_begin_render_pass", <<>>,
                {Entry("RenderPass", rp), Entry("Framebuffer", fb)},
                <<Entry("RenderPass", rp), Entry("Framebuffer", fb)>>)
    /\ UNCHANGED <<layout, recorded>>

\* CommandBufferBuilder::bind_descriptor_sets.
BindDescriptorSets(c, lay, sets) ==
    /\ CanAppend(c)
    /\ userRes[lay]
    /\ \A i \in 1..Len(sets) : userRes[sets[i]]
    /\ AppendOk(c, "bind_descriptor_sets", "cmd_bind_descriptor_sets", <<>>,
                {Entry("DescriptorSet", sets[i]) : i \in 1..Len(sets)}
                    \cup {Entry("PipelineLayout", lay)},
                [i \in 1..Len(sets) |-> Entry("DescriptorSet", sets[i])]
                    \o <<Entry("PipelineLayout", lay)>>)
    /\ UNCHANGED <<layout, recorded>>

\* CommandBufferBuilder::bind_pipeline.
BindPipeline(c, r) ==
    /\ CanAppend(c)
    /\ userRes[r]
    /\ AppendOk(c, "bind_pipeline", "cmd_bind_pipeline", <<>>,
                {Entry("Pipeline", r)}, <<Entry("Pipeline", r)>>)
    /\ UNCHANGED <<layout, recorded>>

\* CommandBufferBuilder::bind_vertex_buffers.
BindVertexBuffers(c, bufs) ==
    /\ CanAppend(c)
    /\ \A i \in 1..Len(bufs) : userRes[bufs[i]]
    /\ AppendOk(c, "bind_vertex_buffers", "cmd_bind_vertex_buffers", <<>>,
                {Entry("Buffer", bufs[i]) : i \in 1..Len(bufs)},
                [i \in 1..Len(bufs) |-> Entry("Buffer", bufs[i])])
    /\ UNCHANGED <<layout, recorded>>

\* CommandBufferBuilder::clear_color_image: the native call names the image;
\* nothing is pushed.
ClearColorImage(c, img) ==
    /\ CanAppend(c)
    /\ userRes[img]
    /\ AppendOk(c, "clear_color_image", "cmd_clear_color_image", <<>>,
                {Entry("Image", img)}, <<>>)
    /\ UNCHANGED <<layout, recorded>>

\* Buffer::size, in bytes, and Buffer::len, in elements (u32).
BufSize(b) == IF b = BufSmall THEN 64 ELSE 128
BufLen(b) == BufSize(b) \div 4

\* Image::size and Image::len: the image is 4 x 4 x 1.
ImageSize(i) == <<4, 4, 1>>
ImageLen(i) == ImageSize(i)[1] * ImageSize(i)[2] * ImageSize(i)[3]

\* An assertion with the comparison the other way round.
CopyAllowed_Reversed(src, dst) == BufSize(dst) <= BufSize(src)

\* The assertion of copy_buffer.
CopyAllowed(src, dst) == BufSize(src) <= BufSize(dst)

\* CommandBufferBuilder::copy_buffer; the data are the buffers passed and, of
\* a copy recorded, the size of the region of the native call.
CopyBuffer(c, src, dst) ==
    /\ CanAppend(c)
    /\ userRes[src] /\ userRes[dst]
    /\ IF CopyAllowed(src, dst)
       THEN AppendOk(c, "copy_buffer", "cmd_copy_buffer",
                     <<[src |-> src, dst |-> dst, size |-> BufSize(src)]>>,
                     {Entry("Buffer", src), Entry("Buffer", dst)},
                     <<Entry("Buffer", src), Entry("Buffer", dst)>>)
       ELSE AppendFault(c, "copy_buffer", <<[src |-> src, dst |-> dst]>>)
    /\ UNCHANGED <<layout, recorded>>

\* CommandBufferBuilder::copy_buffer_to_image; the data are the arguments,
\* image_extent being the extent of the region of the native call.
CopyBufferToImage(c, src, dst, extent) ==
    /\ CanAppend(c)
    /\ userRes[src] /\ userRes[dst]
    /\ IF BufLen(src) <= ImageLen(dst)
       THEN AppendOk(c, "copy_buffer_to_image", "cmd_copy_buffer_to_image",
                     <<[src |-> src, dst |-> dst, image_extent |-> extent]>>,
                     {Entry("Buffer", src), Entry("Image", dst)},
                     <<Entry("Buffer", src), Entry("Image", dst)>>)
       ELSE AppendFault(c, "copy_buffer_to_image",
                        <<[src |-> src, dst |-> dst, image_extent |-> extent]>>)
    /\ UNCHANGED <<layout, recorded>>

\* CommandBufferBuilder::draw.
Draw(c) ==
    /\ CanAppend(c)
    /\ AppendOk(c, "draw", "cmd_draw", <<>>, {}, <<>>)
    /\ UNCHANGED <<layout, recorded>>

\* CommandBufferBuilder::end_render_pass.
EndRenderPass(c) ==
    /\ CanAppend(c)
    /\ AppendOk(c, "end_render_pass", "cmd_end_render_pass", <<>>, {}, <<>>)
    /\ UNCHANGED <<layout, recorded>>

\* CommandBufferBuilder::execute_commands with the secondaries secs.
ExecuteCommands(c, secs) ==
    /\ CanAppend(c)
    /\ \A i \in 1..Len(secs) :
          Built(secs[i]) /\ cb[secs[i]].sec /\ cb[secs[i]].user
    /\ AppendOk(c, "execute_commands", "cmd_execute_commands",
                <<[cmds |-> [i \in 1..Len(secs) |-> cb[secs[i]].vk]]>>,
                {Entry("CommandBufferSecondary", secs[i]) : i \in 1..Len(secs)},
                [i \in 1..Len(secs) |-> Entry("CommandBufferSecondary", secs[i])])
    /\ UNCHANGED <<layout, recorded>>

\* A match whose last arm does not panic.
Registered_Any(old, new) == TRUE

\* The match of pipeline_barrier: the transitions with access masks.
Registered(old, new) ==
    \/ old = "UNDEFINED" /\ new = "TRANSFER_DST_OPTIMAL"
    \/ old = "TRANSFER_DST_OPTIMAL" /\ new = "SHADER_READ_ONLY_OPTIMAL"

\* A table whose first access mask is always empty.
SrcAccessMask_Empty(old, new) == "empty"

\* The access masks of the two arms.
SrcAccessMask(old, new) == IF old = "UNDEFINED" THEN "empty" ELSE "TRANSFER_WRITE"
DstAccessMask(old, new) == IF old = "UNDEFINED" THEN "TRANSFER_WRITE" ELSE "SHADER_READ"

\* The loop of pipeline_barrier over the barriers `bars`, from the layouts
\* lay: each image's layout is read, then stored, then matched; an
\* unregistered pair panics (unimplemented!) there.
RECURSIVE BarrierLoop(_, _, _, _)
BarrierLoop(bars, lay, imgs, vks) ==
    IF bars = <<>>
    THEN [fault |-> FALSE, layout |-> lay, imgs |-> imgs, vks |-> vks]
    ELSE LET bar == Head(bars)
             old == lay[bar.img]
             new == bar.new_layout
             lay1 == [lay EXCEPT ![bar.img] = new]
         IN  IF ~Registered(old, new)
             THEN [fault |-> TRUE, layout |-> lay1, imgs |-> imgs, vks |-> vks]
             ELSE BarrierLoop(Tail(bars), lay1, Append(imgs, bar.img),
                     Append(vks, [src_access_mask |-> SrcAccessMask(old, new),
                                  dst_access_mask |-> DstAccessMask(old, new),
                                  old_layout |-> old,
                                  new_layout |-> new,
                                  image |-> bar.img]))

\* The native barriers vks, in order, added to the barriers recorded on
\* their images.
RECURSIVE LogAfter(_, _)
LogAfter(log, vks) ==
    IF vks = <<>> THEN log
    ELSE LogAfter([log EXCEPT ![Head(vks).image] = Append(@, Head(vks))], Tail(vks))

\* CommandBufferBuilder::pipeline_barrier, the whole call while no other
\* call is in progress; the data are the barriers passed and the native
\* barriers built from them.
PipelineBarrier(c, bars) ==
    /\ CanAppend(c)
    /\ \A d \in Slots : cb[d].st # "barrier"
    /\ \A i \in 1..Len(bars) : userRes[bars[i].img]
    /\ LET R == BarrierLoop(bars, layout, <<>>, <<>>)
       IN  /\ layout' = R.layout
           /\ recorded' = IF R.fault THEN recorded ELSE LogAfter(recorded, R.vks)
           /\ IF R.fault
              THEN AppendFault(c, "pipeline_barrier", <<[bars |-> bars, vks |-> R.vks]>>)
              ELSE AppendOk(c, "pipeline_barrier", "cmd_pipeline_barrier",
                            <<[bars |-> bars, vks |-> R.vks]>>,
                            {Entry("Image", R.imgs[i]) : i \in 1..Len(R.imgs)},
                            [i \in 1..Len(R.imgs) |-> Entry("Image", R.imgs[i])])

\* pipeline_barrier step by step, for calls that run concurrently on
\* builders held by different threads (Image is Sync; layout() and
\* set_layout() take &self).  The call starts: the builder moves into it.
BarrierBegin(c, bars) ==
    /\ CanAppend(c)
    /\ \A i \in 1..Len(bars) : userRes[bars[i].img]
    /\ cb' = [cb EXCEPT ![c].st = "barrier",
                        ![c].call = [NoCall EXCEPT !.pc = "load", !.args = bars,
                                                   !.rest = bars]]
    /\ resRc' = [r \in Resources |->
                    resRc[r] + Cardinality({i \in 1..Len(bars) : bars[i].img = r})]
    /\ last' = Op("barrier_begin", cb[c].thr, FALSE, <<>>, <<>>)
    /\ UNCHANGED <<fut, fence, semRc, created, avail, size, free, pc, leaked, resSt,
                   userRes, layout, recorded, quota>>

\* bar.img.layout(): an atomic load.
BarrierLoad(c) ==
    /\ cb[c].st = "barrier"
    /\ cb[c].call.pc = "load"
    /\ cb' = [cb EXCEPT ![c].call.old = layout[Head(cb[c].call.rest).img],
                        ![c].call.pc = "store"]
    /\ last' = Op("barrier_load", cb[c].thr, FALSE, <<>>, <<>>)
    /\ UNCHANGED <<fut, fence, semRc, created, avail, size, free, pc, leaked, resSt,
                   resRc, userRes, layout, recorded, quota>>

\* The builder and the barriers of a call that panics are dropped: the
\* images pushed so far with the ledger, the others with the iterator.
CallDropped(c) ==
    LET H1 == BuilderDropped(c)
        left == cb[c].call.rest
    IN  ReleaseEntries(H1, [i \in 1..Len(left) |-> Entry("Image", left[i].img)])

\* bar.img.set_layout(new_layout): an atomic store; then the match, which
\* panics on an unregistered pair, and the pushes on the locals and the
\* ledger.
BarrierStore(c) ==
    /\ cb[c].st = "barrier"
    /\ cb[c].call.pc = "store"
    /\ LET bar == Head(cb[c].call.rest)
           old == cb[c].call.old
           new == bar.new_layout
           vk == [src_access_mask |-> SrcAccessMask(old, new),
                  dst_access_mask |-> DstAccessMask(old, new),
                  old_layout |-> old, new_layout |-> new, image |-> bar.img]
       IN  /\ layout' = [layout EXCEPT ![bar.img] = new]
           /\ IF Registered(old, new)
              THEN /\ cb' = [cb EXCEPT
                              ![c].call.rest = Tail(@),
                              ![c].call.vks = Append(@, vk),
                              ![c].call.pc = IF Len(cb[c].call.rest) = 1
                                             THEN "issue" ELSE "load",
                              ![c].resources = Append(@, Entry("Image", bar.img)),
                              ![c].used = @ \cup {Entry("Image", bar.img)}]
                   /\ last' = Op("barrier_store", cb[c].thr, FALSE, <<>>, <<>>)
                   /\ UNCHANGED <<free, resSt, resRc, leaked>>
              ELSE /\ SetHeap(CallDropped(c))
                   /\ leaked' = leaked \cup {cb[c].vk}
                   /\ last' = Op("pipeline_barrier", cb[c].thr, TRUE, PoolDestroyCalls,
                                 <<[bars |-> cb[c].call.args, vks |-> cb[c].call.vks]>>)
    /\ UNCHANGED <<fut, fence, semRc, created, avail, size, pc, userRes, recorded, quota>>

\* cmd_pipeline_barrier with the native barriers built, and the call returns
\* the builder.
BarrierIssue(c) ==
    /\ cb[c].st = "barrier"
    /\ cb[c].call.pc = "issue"
    /\ cb' = [cb EXCEPT ![c].st = "rec", ![c].nops = @ + 1, ![c].call = NoCall]
    /\ recorded' = LogAfter(recorded, cb[c].call.vks)
    /\ last' = Op("pipeline_barrier", cb[c].thr, FALSE, <<"cmd_pipeline_barrier">>,
                  <<[bars |-> cb[c].call.args, vks |-> cb[c].call.vks]>>)
    /\ UNCHANGED <<fut, fence, semRc, created, avail, size, free, pc, leaked, resSt,
                   resRc, userRes, layout, quota>>

\* An assertion on the size alone.
PushAllowed_SizeOnly(stages, bytes) == bytes % 4 = 0

\* The assertions of push_constants.
PushAllowed(stages, bytes) ==
    /\ bytes % 4 = 0
    /\ stages # {}

\* CommandBufferBuilder::push_constants with a value of `bytes` bytes; the
\* data are the arguments.
PushConstants(c, lay, stages, bytes) ==
    /\ CanAppend(c)
    /\ userRes[lay]
    /\ IF PushAllowed(stages, bytes)
       THEN AppendOk(c, "push_constants", "cmd_push_constants",
                     <<[layout |-> lay, stage_flags |-> stages, size |-> bytes]>>,
                     {Entry("PipelineLayout", lay)}, <<Entry("PipelineLayout", lay)>>)
       ELSE AppendFault(c, "push_constants",
                        <<[layout |-> lay, stage_flags |-> stages, size |-> bytes]>>)
    /\ UNCHANGED <<layout, recorded>>

\* ------------------------------------------------------------- the caller
\* The caller drops its Arc<CommandBuffer>.
DropCmd(c) ==
    /\ Built(c) /\ cb[c].user
    /\ SetHeap(ReleaseCmd([Heap EXCEPT !.cb[c].user = FALSE], c))
    /\ last' = Op("drop_cmd", 0, FALSE, PoolDestroyCalls, <<>>)
    /\ UNCHANGED <<fut, fence, semRc, created, avail, size, pc, leaked, userRes, layout, recorded, quota>>

\* The caller drops its Arc of a resource; of the pool, when no call on the
\* pool is in progress.
DropRes(r) ==
    /\ userRes[r]
    /\ r = CmdPool => \A t \in Threads : pc[t] = "idle"
    /\ userRes' = [userRes EXCEPT ![r] = FALSE]
    /\ SetHeap(ReleaseRes(Heap, r))
    /\ last' = Op("drop_res", 0, FALSE, PoolDestroyCalls, <<>>)
    /\ UNCHANGED <<fut, fence, semRc, created, avail, size, pc, leaked, layout, recorded, quota>>

\* ------------------------------------------------------------- GpuFuture
\* A future is a tree: its variant, the queue and the command buffer of a
\* submission, the semaphore of a semaphore future, and the futures it owns.
Future(tag, q, c, s, kids) ==
    [tag |-> tag, queue |-> q, cmd |-> c, sem |-> s, kids |-> kids]

\* An empty slot: Option::None of a boxed future.
NoFuture == Future("none", 0, 0, 0, <<>>)

\* The number of futures in a tree.
RECURSIVE Nodes(_)
Nodes(f) ==
    IF f.tag = "none" THEN 0
    ELSE IF Len(f.kids) = 0 THEN 1
    ELSE IF Len(f.kids) = 1 THEN 1 + Nodes(f.kids[1])
    ELSE 1 + Nodes(f.kids[1]) + Nodes(f.kids[2])

\* The results of GpuFuture::queue: None, and a call that panics (todo!).
NoQueue == 0
QueueTodo == 0 - 1

\* GpuFuture::queue of each variant.
RECURSIVE QueueOf(_)
QueueOf(f) ==
    CASE f.tag \in {"Submit", "SubmitAfter"} -> f.queue
      [] f.tag \in {"Join", "SemaphoreSignal"} -> QueueOf(f.kids[1])
      [] f.tag = "Acquire" -> QueueTodo
      [] OTHER -> NoQueue

\* The family of a queue, and the family the CommandPool was created for.
QueueFamilyOf(q) == IF q <= 2 THEN 1 ELSE 2
PoolFamily == QueueFamilyOf(1)

\* SubmitState::new.
EmptySubmit ==
    [fault |-> FALSE, wait_semaphores |-> <<>>, wait_dst_stage_masks |-> <<>>,
     signal_semaphores |-> <<>>, cmds |-> <<>>]

\* A join that extends the wait semaphores without their stage masks.
SubmitJoin_NoStages(a, b) ==
    [fault |-> FALSE,
     wait_semaphores |-> a.wait_semaphores \o b.wait_semaphores,
     wait_dst_stage_masks |-> a.wait_dst_stage_masks,
     signal_semaphores |-> a.signal_semaphores \o b.signal_semaphores,
     cmds |-> a.cmds \o b.cmds]

\* SubmitState::join.
SubmitJoin(a, b) ==
    [fault |-> FALSE,
     wait_semaphores |-> a.wait_semaphores \o b.wait_semaphores,
     wait_dst_stage_masks |-> a.wait_dst_stage_masks \o b.wait_dst_stage_masks,
     signal_semaphores |-> a.signal_semaphores \o b.signal_semaphores,
     cmds |-> a.cmds \o b.cmds]

\* A signal pushed on the list of the waits.
SignalSemaphore_AsWait(s, sem) ==
    [s EXCEPT !.wait_semaphores = Append(@, sem)]

\* SubmitState::signal_semaphore.
SignalSemaphore(s, sem) ==
    [s EXCEPT !.signal_semaphores = Append(@, sem)]

\* A wait pushed without its stage.
WaitSemaphore_NoStage(s, sem, stage) ==
    [s EXCEPT !.wait_semaphores = Append(@, sem)]

\* SubmitState::wait_semaphore.
WaitSemaphore(s, sem, stage) ==
    [s EXCEPT !.wait_semaphores = Append(@, sem),
              !.wait_dst_stage_masks = Append(@, stage)]

\* A push at the front of the command list.
SubmitCmd_Front(s, vk) ==
    [s EXCEPT !.cmds = <<vk>> \o @]

\* SubmitState::cmd.
SubmitCmd(s, vk) ==
    [s EXCEPT !.cmds = Append(@, vk)]

\* GpuFuture::build_submission of each variant; fault: the call panics.
RECURSIVE BuildSubmission(_)
BuildSubmission(f) ==
    CASE f.tag = "Now" -> EmptySubmit
      [] f.tag = "Submit" -> SubmitCmd(EmptySubmit, cb[f.cmd].vk)
      [] f.tag = "SubmitAfter" ->
            LET s == BuildSubmission(f.kids[1])
            IN  IF s.fault THEN s ELSE SubmitCmd(s, cb[f.cmd].vk)
      [] f.tag = "Join" ->
            LET l == BuildSubmission(f.kids[1])
            IN  IF l.fault THEN l
                ELSE LET r == BuildSubmission(f.kids[2])
                     IN  IF r.fault THEN r ELSE SubmitJoin(l, r)
      [] f.tag = "SemaphoreSignal" ->
            LET s == BuildSubmission(f.kids[1])
            IN  IF s.fault THEN s
                ELSE SignalSemaphore(s, f.sem)
      [] f.tag = "Acquire" ->
            WaitSemaphore(EmptySubmit, f.sem, "COLOR_ATTACHMENT_OUTPUT")
      [] OTHER -> [EmptySubmit EXCEPT !.fault = TRUE]

\* A chain that is forgotten instead of dropped.
ReleaseFuture_Forget(H, f) == H

\* Dropping a future: its fields in declaration order, the Arc of a command
\* buffer among them.
RECURSIVE ReleaseFuture(_, _)
ReleaseFuture(H, f) ==
    CASE f.tag = "Submit" -> ReleaseCmd(H, f.cmd)
      [] f.tag = "SubmitAfter" -> ReleaseFuture(ReleaseCmd(H, f.cmd), f.kids[1])
      [] f.tag = "Join" -> ReleaseFuture(ReleaseFuture(H, f.kids[1]), f.kids[2])
      [] f.tag = "SemaphoreSignal" -> ReleaseFuture(H, f.kids[1])
      [] OTHER -> H

\* The Arcs of semaphore s a future holds.
RECURSIVE SemCount(_, _)
SemCount(f, s) ==
    (IF f.tag \in {"SemaphoreSignal", "Semaphore", "Acquire"} /\ f.sem = s THEN 1 ELSE 0)
    + (IF Len(f.kids) >= 1 THEN SemCount(f.kids[1], s) ELSE 0)
    + (IF Len(f.kids) >= 2 THEN SemCount(f.kids[2], s) ELSE 0)

\* The semaphore counts after the futures fs were dropped; a semaphore whose
\* count reaches 0 is destroyed (Drop for Semaphore).
SemsAfterDrop(fs) ==
    [s \in Sems |-> semRc[s] - SemCount(Future("Join", 0, 0, 0, fs), s)]

SemDestroyCalls(fs) ==
    [k \in 1..Cardinality({s \in Sems : semRc[s] > 0 /\ SemsAfterDrop(fs)[s] = 0})
        |-> "destroy_semaphore"]

FreeFuts == {i \in FutSlots : fut[i].tag = "none"}
NewFut == CHOOSE i \in FreeFuts : \A j \in FreeFuts : i <= j
FreeSems == {s \in Sems : semRc[s] = 0}
NewSem == CHOOSE s \in FreeSems : \A r \in FreeSems : s <= r
FreeFences == {f \in Fences : fence[f].st = "none"}
NewFence == CHOOSE f \in FreeFences : \A g \in FreeFences : f <= g

\* The futures alive, held by the caller or retained by a fence: the bound on
\* the graphs built is a bound on this number.
TotalNodes ==
    LET RECURSIVE Sum(_)
        Sum(n) == IF n = 0 THEN 0 ELSE Nodes(fut[n]) + Sum(n - 1)
        RECURSIVE Kept(_)
        Kept(n) ==
            IF n = 0 THEN 0
            ELSE Nodes(fence[n].prev) + Nodes(fence[n].held) + Kept(n - 1)
    IN  Sum(MaxFutures) + Kept(MaxFences)

recordVars == <<created, avail, size, pc, leaked, userRes, layout, recorded, quota>>

\* The Arc<CommandBuffer> passed by value is a clone of the caller's own
\* (passing its own is the clone followed by DropCmd).
PassCmd(H, c) == [H EXCEPT !.cb[c].rc = @ + 1]

\* NowFuture::new; max caps the futures alive.
NowWithin(max) ==
    /\ FreeFuts # {}
    /\ TotalNodes + 1 <= max
    /\ fut' = [fut EXCEPT ![NewFut] = Future("Now", 0, 0, 0, <<>>)]
    /\ last' = Op("now", 0, FALSE, <<>>, <<>>)
    /\ UNCHANGED <<recordVars, cb, free, resSt, resRc, fence, semRc>>

Now == NowWithin(MaxNodes)

\* Queue::submit; the data: the queue.
Submit(q, c) ==
    /\ FreeFuts # {}
    /\ TotalNodes + 1 <= MaxNodes
    /\ Built(c) /\ ~cb[c].sec /\ cb[c].user
    /\ IF PoolFamily = QueueFamilyOf(q)
       THEN /\ fut' = [fut EXCEPT ![NewFut] = Future("Submit", q, c, 0, <<>>)]
            /\ SetHeap(PassCmd(Heap, c))
            /\ last' = Op("submit", 0, FALSE, <<>>, <<[queue |-> q]>>)
       ELSE /\ fut' = fut
            /\ SetHeap(ReleaseCmd(PassCmd(Heap, c), c))
            /\ last' = Op("submit", 0, TRUE, PoolDestroyCalls, <<[queue |-> q]>>)
    /\ UNCHANGED <<recordVars, fence, semRc>>

\* Queue::submit_after with the future of slot i as prev; the data: the queue.
SubmitAfter(q, i, c) ==
    /\ fut[i].tag # "none"
    /\ TotalNodes + 1 <= MaxNodes
    /\ Built(c) /\ ~cb[c].sec /\ cb[c].user
    /\ IF PoolFamily = QueueFamilyOf(q)
       THEN /\ fut' = [fut EXCEPT ![i] = Future("SubmitAfter", q, c, 0, <<fut[i]>>)]
            /\ SetHeap(PassCmd(Heap, c))
            /\ semRc' = semRc
            /\ last' = Op("submit_after", 0, FALSE, <<>>, <<[queue |-> q]>>)
       ELSE /\ fut' = [fut EXCEPT ![i] = NoFuture]
            /\ SetHeap(ReleaseFuture(ReleaseCmd(PassCmd(Heap, c), c), fut[i]))
            /\ semRc' = SemsAfterDrop(<<fut[i]>>)
            /\ last' = Op("submit_after", 0, TRUE,
                          SemDestroyCalls(<<fut[i]>>) \o PoolDestroyCalls,
                          <<[queue |-> q]>>)
    /\ UNCHANGED <<recordVars, fence>>

\* A constructor that does not compare the queues.
JoinFault_NoAssert(l, r) ==
    LET lq == QueueOf(l)
    IN  IF lq = QueueTodo THEN TRUE
        ELSE IF lq = NoQueue THEN FALSE
        ELSE QueueOf(r) = QueueTodo

\* The checks of JoinFuture::new: right.queue() is called only when
\* left.queue() is Some; the assertion compares the queues.
JoinFault(l, r) ==
    LET lq == QueueOf(l)
    IN  IF lq = QueueTodo THEN TRUE
        ELSE IF lq = NoQueue THEN FALSE
        ELSE LET rq == QueueOf(r)
             IN  rq = QueueTodo \/ (rq # NoQueue /\ rq # lq)

\* GpuFuture::join of the futures of slots i (self) and j (other); max caps
\* the futures alive.
JoinWithin(i, j, max) ==
    /\ i # j
    /\ fut[i].tag # "none" /\ fut[j].tag # "none"
    /\ TotalNodes + 1 <= max
    /\ IF JoinFault(fut[i], fut[j])
       THEN /\ fut' = [fut EXCEPT ![i] = NoFuture, ![j] = NoFuture]
            /\ SetHeap(ReleaseFuture(ReleaseFuture(Heap, fut[i]), fut[j]))
            /\ semRc' = SemsAfterDrop(<<fut[i], fut[j]>>)
            /\ last' = Op("join", 0, TRUE,
                          SemDestroyCalls(<<fut[i], fut[j]>>) \o PoolDestroyCalls,
                          <<[left |-> fut[i], right |-> fut[j]]>>)
       ELSE /\ fut' = [fut EXCEPT ![i] = Future("Join", 0, 0, 0, <<fut[i], fut[j]>>),
                                  ![j] = NoFuture]
            /\ last' = Op("join", 0, FALSE, <<>>,
                          <<[left |-> fut[i], right |-> fut[j]]>>)
            /\ UNCHANGED <<cb, free, resSt, resRc, semRc>>
    /\ UNCHANGED <<recordVars, fence>>

Join(i, j) == JoinWithin(i, j, MaxNodes)

\* GpuFuture::then_signal_semaphore on the future of slot i: the continuation
\* stays in slot i, the detached SemaphoreFuture takes a new slot.
ThenSignalSemaphore(i) ==
    /\ fut[i].tag # "none"
    /\ TotalNodes + 2 <= MaxNodes
    /\ FreeFuts # {} /\ FreeSems # {}
    /\ fut' = [fut EXCEPT ![i] = Future("SemaphoreSignal", 0, 0, NewSem, <<fut[i]>>),
                          ![NewFut] = Future("Semaphore", 0, 0, NewSem, <<>>)]
    /\ semRc' = [semRc EXCEPT ![NewSem] = 2]
    /\ last' = Op("then_signal_semaphore", 0, FALSE, <<"create_semaphore">>, <<>>)
    /\ UNCHANGED <<recordVars, cb, free, resSt, resRc, fence>>

\* An error return that keeps the semaphore of the attempt alive.
AcquireErr_Leak ==
    /\ fut' = fut
    /\ semRc' = [semRc EXCEPT ![NewSem] = 1]
    /\ last' = Op("acquire_next_image", 0, FALSE,
                  <<"create_semaphore", "acquire_next_image">>, <<"Err">>)

\* The native acquire returned an error (a timeout among them): `?` returns
\* it, and the Arc<Semaphore> of the attempt, which nothing else holds, is
\* dropped on the way out.
AcquireErr ==
    /\ fut' = fut
    /\ semRc' = semRc
    /\ last' = Op("acquire_next_image", 0, FALSE,
                  <<"create_semaphore", "acquire_next_image", "destroy_semaphore">>,
                  <<"Err">>)

\* Swapchain::acquire_next_image; ok: the native acquire returned an image;
\* max caps the futures alive.
AcquireWithin(ok, max) ==
    /\ FreeFuts # {} /\ FreeSems # {}
    /\ TotalNodes + 1 <= max
    /\ IF ok
       THEN /\ fut' = [fut EXCEPT ![NewFut] = Future("Acquire", 0, 0, NewSem, <<>>)]
            /\ semRc' = [semRc EXCEPT ![NewSem] = 1]
            /\ last' = Op("acquire_next_image", 0, FALSE,
                          <<"create_semaphore", "acquire_next_image">>, <<"Ok">>)
       ELSE AcquireErr
    /\ UNCHANGED <<recordVars, cb, free, resSt, resRc, fence>>

Acquire(ok) == AcquireWithin(ok, MaxNodes)

\* The Arcs of command buffer c a future holds.
RECURSIVE CmdCount(_, _)
CmdCount(f, c) ==
    (IF f.tag \in {"Submit", "SubmitAfter"} /\ f.cmd = c THEN 1 ELSE 0)
    + (IF Len(f.kids) >= 1 THEN CmdCount(f.kids[1], c) ELSE 0)
    + (IF Len(f.kids) >= 2 THEN CmdCount(f.kids[2], c) ELSE 0)

\* The caller drops the future of slot i, a graph that was not forced (the
\* data: the graph).
DropFuture(i) ==
    /\ fut[i].tag # "none"
    /\ fut' = [fut EXCEPT ![i] = NoFuture]
    /\ SetHeap(ReleaseFuture(Heap, fut[i]))
    /\ semRc' = SemsAfterDrop(<<fut[i]>>)
    /\ last' = Op("drop_future", 0, FALSE,
                  SemDestroyCalls(<<fut[i]>>) \o PoolDestroyCalls, <<fut[i]>>)
    /\ UNCHANGED <<recordVars, fence>>

\* GpuFuture::flush of each variant panics (todo!) but for NowFuture, whose
\* flush is empty, and JoinFuture, which flushes left, then right.
RECURSIVE FlushFault(_)
FlushFault(f) ==
    CASE f.tag = "Now" -> FALSE
      [] f.tag = "Join" -> FlushFault(f.kids[1]) \/ FlushFault(f.kids[2])
      [] OTHER -> TRUE

\* flush on the future of slot i, which the caller keeps (flush takes
\* &mut self); the data: the future.
Flush(i) ==
    /\ fut[i].tag # "none"
    /\ last' = Op("flush", 0, FlushFault(fut[i]), <<>>, <<fut[i]>>)
    /\ UNCHANGED <<recordVars, cb, free, resSt, resRc, fut, fence, semRc>>

\* ----------------------------------------------------------------- Fence
\* A fence: the chain it retains (prev), whether the device signalled it, and
\* whether a native wait on it returned successfully (waited).  Of the calls
\* of wait() in progress: wpc[t] is where thread t stands in its call, held
\* is the chain a call has taken out of prev and not yet dropped, and takes
\* counts the calls that took a chain out of prev.
NoFence ==
    [st |-> "none", prev |-> NoFuture, signaled |-> FALSE, waited |-> FALSE,
     submitted |-> FALSE, held |-> NoFuture, wpc |-> [t \in Threads |-> "idle"], takes |-> 0]

\* The entries of the ledgers of the command buffers cs.
LedgerOf(cs) ==
    UNION {{cb[c].resources[i] : i \in 1..Len(cb[c].resources)} : c \in cs}

\* The resources in the ledgers of the command buffers with handles hs, and of
\* the secondary command buffers in those ledgers.
LedgerRes(hs) ==
    LET top == {c \in Slots : cb[c].st # "none" /\ cb[c].vk \in hs}
        secs == {e.ref : e \in {x \in LedgerOf(top) : x.kind = "CommandBufferSecondary"}}
    IN  {e.ref : e \in {x \in LedgerOf(top \cup secs) :
                            x.kind # "CommandBufferSecondary"}}

\* vk::SubmitInfo as Fence::end builds it, with the queue and the fence.
SubmitInfo(q, s, f) ==
    [queue |-> q,
     wait_semaphores |-> s.wait_semaphores,
     wait_dst_stage_mask |-> s.wait_dst_stage_masks,
     signal_semaphores |-> s.signal_semaphores,
     command_buffers |-> s.cmds,
     fence |-> f]

\* Fence::end, called by then_signal_fence on the future of slot i:
\* build_submission, create_fence, queue().unwrap(), queue_submit, and the
\* chain boxed into the fence.  A panic unwinds and drops the chain; the one
\* after create_fence leaves the native fence behind.
ThenSignalFence(i) ==
    /\ fut[i].tag # "none"
    /\ FreeFences # {}
    /\ fut' = [fut EXCEPT ![i] = NoFuture]
    /\ LET prev == fut[i]
           s == BuildSubmission(prev)
           q == IF s.fault THEN NoQueue ELSE QueueOf(prev)
       IN  IF s.fault \/ q \in {NoQueue, QueueTodo}
           THEN /\ SetHeap(ReleaseFuture(Heap, prev))
                /\ semRc' = SemsAfterDrop(<<prev>>)
                /\ fence' = fence
                /\ last' = Op("then_signal_fence", 0, TRUE,
                              (IF s.fault THEN <<>> ELSE <<"create_fence">>)
                                  \o SemDestroyCalls(<<prev>>) \o PoolDestroyCalls,
                              <<[chain |-> prev, submits |-> <<>>]>>)
           ELSE /\ fence' = [fence EXCEPT ![NewFence] =
                                [NoFence EXCEPT !.st = "live", !.prev = prev,
                                                !.submitted = TRUE]]
                /\ last' = Op("then_signal_fence", 0, FALSE,
                              <<"create_fence", "queue_submit">>,
                              <<[chain |-> prev,
                                 submits |-> <<SubmitInfo(q, s, NewFence)>>]>>)
                /\ UNCHANGED <<cb, free, resSt, resRc, semRc>>
    /\ UNCHANGED recordVars

\* The device finishes the submission guarded by fence f and signals it.
GpuComplete(f) ==
    /\ fence[f].st \in {"live", "dropping"}
    /\ fence[f].submitted
    /\ ~fence[f].signaled
    /\ fence' = [fence EXCEPT ![f].signaled = TRUE]
    /\ last' = Op("gpu_complete", 0, FALSE, <<>>, <<>>)
    /\ UNCHANGED <<recordVars, cb, free, resSt, resRc, fut, semRc>>

\* The command buffers a future holds.
RECURSIVE ChainCmds(_)
ChainCmds(f) ==
    (IF f.tag \in {"Submit", "SubmitAfter"} THEN {f.cmd} ELSE {})
    \cup (IF Len(f.kids) >= 1 THEN ChainCmds(f.kids[1]) ELSE {})
    \cup (IF Len(f.kids) >= 2 THEN ChainCmds(f.kids[2]) ELSE {})

\* What the chain retained by fence f holds: its command buffers with their
\* handles, and the resources of their ledgers.
Retained(f) ==
    [cmds |-> {[c |-> c, vk |-> cb[c].vk] : c \in ChainCmds(fence[f].prev)},
     res |-> LedgerRes({cb[c].vk : c \in ChainCmds(fence[f].prev)})]

\* What a chain holds, as Retained gives it for the chain in the slot.
ChainData(ch) ==
    [cmds |-> {[c |-> c, vk |-> cb[c].vk] : c \in ChainCmds(ch)},
     res |-> LedgerRes({cb[c].vk : c \in ChainCmds(ch)})]

\* wait_for_fences with timeout !0 returns Ok only once the fence is signalled.
WaitReturns(f) == fence[f].signaled

\* A take that loads the slot and leaves it as it is.
SlotAfterTake_Load(f) == fence[f].prev

\* AtomicCell::take: the slot is swapped with None (Option::default()).
SlotAfterTake(f) == NoFuture

\* How many chains a take on fence f gets out of the slot.
Taken(f) == IF fence[f].prev # NoFuture THEN 1 ELSE 0

\* self.prev.take() and the drop of what was taken.
TakePrev(f) ==
    /\ SetHeap(ReleaseFuture(Heap, fence[f].prev))
    /\ semRc' = SemsAfterDrop(<<fence[f].prev>>)

\* Fence::wait; ok: the native wait returned Ok, else it returned an error
\* and unwrap() panicked before take().
FenceWait(f, ok) ==
    /\ fence[f].st = "live"
    /\ IF ok
       THEN /\ WaitReturns(f)
            /\ TakePrev(f)
            /\ fence' = [fence EXCEPT ![f].prev = SlotAfterTake(f), ![f].waited = TRUE,
                                      ![f].takes = @ + Taken(f)]
            /\ last' = Op("wait", f, FALSE,
                          <<"wait_for_fences">> \o SemDestroyCalls(<<fence[f].prev>>)
                              \o PoolDestroyCalls,
                          <<Retained(f)>>)
       ELSE /\ last' = Op("wait", f, TRUE, <<"wait_for_fences">>, <<>>)
            /\ UNCHANGED <<cb, free, resSt, resRc, semRc, fence>>
    /\ UNCHANGED <<recordVars, fut>>

\* Fence::wait on thread t, step by step, for calls that run concurrently (the
\* fence is Sync and wait takes &self).  First the native wait; ok: it returned
\* Ok, else it returned an error and unwrap() panicked.
WaitNative(t, f, ok) ==
    /\ fence[f].st = "live"
    /\ fence[f].wpc[t] = "idle"
    /\ IF ok
       THEN /\ WaitReturns(f)
            /\ fence' = [fence EXCEPT ![f].wpc[t] = "waited", ![f].waited = TRUE]
            /\ last' = Op("wait_for_fences", f, FALSE, <<"wait_for_fences">>, <<>>)
       ELSE /\ fence' = fence
            /\ last' = Op("wait", f, TRUE, <<"wait_for_fences">>, <<>>)
    /\ UNCHANGED <<recordVars, fut, cb, free, resSt, resRc, semRc>>

\* Then self.prev.take(), one atomic swap.  The call that gets the chain
\* holds it in a temporary; a call that gets None has nothing to drop and
\* returns (the data: what the chain of the fence holds at that moment, in
\* the temporary of the call that took it).
WaitTake(t, f) ==
    /\ fence[f].st = "live"
    /\ fence[f].wpc[t] = "waited"
    /\ IF fence[f].prev # NoFuture
       THEN /\ fence' = [fence EXCEPT ![f].held = fence[f].prev,
                                      ![f].prev = SlotAfterTake(f),
                                      ![f].wpc[t] = "took",
                                      ![f].takes = @ + Taken(f)]
            /\ last' = Op("take", f, FALSE, <<>>, <<>>)
       ELSE /\ fence' = [fence EXCEPT ![f].wpc[t] = "idle"]
            /\ last' = Op("wait", f, FALSE, <<>>, <<ChainData(fence[f].held)>>)
    /\ UNCHANGED <<recordVars, fut, cb, free, resSt, resRc, semRc>>

\* Then the temporary is dropped, at the end of the statement, and the call
\* returns.
WaitRelease(t, f) ==
    /\ fence[f].st = "live"
    /\ fence[f].wpc[t] = "took"
    /\ SetHeap(ReleaseFuture(Heap, fence[f].held))
    /\ semRc' = SemsAfterDrop(<<fence[f].held>>)
    /\ fence' = [fence EXCEPT ![f].held = NoFuture, ![f].wpc[t] = "idle"]
    /\ last' = Op("wait", f, FALSE,
                  SemDestroyCalls(<<fence[f].held>>) \o PoolDestroyCalls,
                  <<ChainData(fence[f].held)>>)
    /\ UNCHANGED <<recordVars, fut>>

\* Drop for Fence: self.wait(), destroy_fence, then the fields.  When the
\* native wait returns an error the panic leaves Drop::drop before take() and
\* destroy_fence, and unwinding drops the fields, prev among them.
FenceDropIn(f, ok, st) ==
    /\ fence[f].st = st
    /\ \A t \in Threads : fence[f].wpc[t] = "idle"
    /\ ok => WaitReturns(f)
    /\ TakePrev(f)
    /\ fence' = [fence EXCEPT ![f].st = "dropped", ![f].prev = NoFuture,
                              ![f].waited = @ \/ ok, ![f].takes = @ + Taken(f)]
    /\ last' = Op("drop_fence", f, ~ok,
                  <<"wait_for_fences">> \o (IF ok THEN <<"destroy_fence">> ELSE <<>>)
                      \o SemDestroyCalls(<<fence[f].prev>>) \o PoolDestroyCalls,
                  <<Retained(f)>>)
    /\ UNCHANGED <<recordVars, fut>>

\* The drop of a fence, from its start to its end.
FenceDrop(f, ok) == FenceDropIn(f, ok, "live")

\* Fence::new: a native fence, signalled or not, and an empty slot; nothing
\* is submitted with it.
FenceNew(signalled) ==
    /\ FreeFences # {}
    /\ fence' = [fence EXCEPT ![NewFence] =
                    [NoFence EXCEPT !.st = "live", !.signaled = signalled]]
    /\ last' = Op("fence_new", 0, FALSE, <<"create_fence">>, <<signalled>>)
    /\ UNCHANGED <<recordVars, cb, free, resSt, resRc, fut, semRc>>

\* Drop for Fence begins: the thread is in wait_for_fences, whose timeout is
\* !0.
FenceDropBegin(f) ==
    /\ fence[f].st = "live"
    /\ \A t \in Threads : fence[f].wpc[t] = "idle"
    /\ fence' = [fence EXCEPT ![f].st = "dropping"]
    /\ last' = Op("drop_fence_begin", f, FALSE, <<>>, <<>>)
    /\ UNCHANGED <<recordVars, cb, free, resSt, resRc, fut, semRc>>

\* The native wait of a drop returns (ok) or fails, and the drop goes on to
\* its end.
FenceDropEnd(f, ok) == FenceDropIn(f, ok, "dropping")

\* ------------------------------------------------------- specifications
InitPool ==
    /\ created = [t \in Threads |-> FALSE]
    /\ avail = [t \in Threads |-> [sec \in BOOLEAN |-> <<>>]]
    /\ size = [t \in Threads |-> [sec \in BOOLEAN |-> 0]]
    /\ free = [t \in Threads |-> [sec \in BOOLEAN |-> <<>>]]
    /\ pc = [t \in Threads |-> "idle"]
    /\ cb = [c \in Slots |-> NoCmd]
    /\ leaked = {}
    /\ quota = [t \in Threads |-> [sec \in BOOLEAN |-> 0]]

\* A new CommandPool; the resources exist, each owned by the caller alone;
\* the image is new (Image::new stores UNDEFINED).
Init ==
    /\ InitPool
    /\ resSt = [r \in Resources |-> "alive"]
    /\ resRc = [r \in Resources |-> 1]
    /\ userRes = [r \in Resources |-> TRUE]
    /\ layout = [i \in Images |-> "UNDEFINED"]
    /\ recorded = [i \in Images |-> <<>>]
    /\ fut = [i \in FutSlots |-> NoFuture]
    /\ fence = [f \in Fences |-> NoFence]
    /\ semRc = [s \in Sems |-> 0]
    /\ last = Op("new", 0, FALSE, <<>>, <<>>)

\* The pool: recording, building, dropping and resetting from every thread.
PoolNext ==
    \/ \E t \in Threads : Record(t, FALSE, <<>>)
    \/ \E t \in Threads : Record(t, TRUE, <<>>)
    \/ \E t \in Threads : ResetBegin(t)
    \/ \E t \in Threads : ResetDrain(t)
    \/ \E c \in Slots : Build(c)
    \/ \E c \in Slots : DropBuilder(c)
    \/ \E c \in Slots, s \in Slots : ExecuteCommands(c, <<s>>)
    \/ \E c \in Slots : DropCmd(c)

Next == PoolNext

Spec == Init /\ [][Next]_vars

\* The ledger: one thread records, with pipelines and secondaries, and the
\* owners drop what they hold.
LedgerNext ==
    \/ Record(1, FALSE, <<>>)
    \/ Record(1, TRUE, <<>>)
    \/ \E c \in Slots : Build(c)
    \/ \E c \in Slots : DropBuilder(c)
    \/ \E c \in Slots, r \in Pipelines : BindPipeline(c, r)
    \/ \E c \in Slots, s \in Slots : ExecuteCommands(c, <<s>>)
    \/ \E c \in Slots : DropCmd(c)
    \/ \E r \in Pipelines : DropRes(r)

SpecLedger == Init /\ [][LedgerNext]_vars

\* Recording: one thread records with every append operation.
Layouts == {"UNDEFINED", "TRANSFER_DST_OPTIMAL", "SHADER_READ_ONLY_OPTIMAL", "GENERAL"}
Barriers == {[img |-> i, new_layout |-> l] : i \in Images, l \in Layouts}
BarrierLists == {<<b>> : b \in Barriers} \cup {<<a, b>> : a \in Barriers, b \in Barriers}
Extents == {<<4, 4, 1>>, <<8, 8, 1>>}

RecordNext ==
    \/ Record(1, FALSE, <<>>)
    \/ \E inh \in {<<>>, <<RPass>>, <<RPass, FBuf>>} : Record(1, TRUE, inh)
    \/ \E c \in Slots : Build(c)
    \/ \E c \in Slots : DropCmd(c)
    \/ \E c \in Slots : BeginRenderPass(c, RPass, FBuf)
    \/ \E c \in Slots, sets \in {<<>>, <<DescSet>>} : BindDescriptorSets(c, PLayout, sets)
    \/ \E c \in Slots, r \in Pipelines : BindPipeline(c, r)
    \/ \E c \in Slots, b \in Buffers : BindVertexBuffers(c, <<b>>)
    \/ \E c \in Slots, i \in Images : ClearColorImage(c, i)
    \/ \E c \in Slots, src \in Buffers, dst \in Buffers : CopyBuffer(c, src, dst)
    \/ \E c \in Slots, src \in Buffers, dst \in Images, e \in Extents :
          CopyBufferToImage(c, src, dst, e)
    \/ \E c \in Slots : Draw(c)
    \/ \E c \in Slots : EndRenderPass(c)
    \/ \E c \in Slots, s \in Slots : ExecuteCommands(c, <<s>>)
    \/ \E c \in Slots, bars \in BarrierLists : PipelineBarrier(c, bars)
    \/ \E c \in Slots, st \in {{}, {"VERTEX"}}, n \in {4, 6} :
          PushConstants(c, PLayout, st, n)

SpecRecord == Init /\ [][RecordNext]_vars

\* Submission: one thread records and builds primary command buffers, and
\* future graphs are built from them and forced.
SubmitNext ==
    \/ Record(1, FALSE, <<>>)
    \/ \E c \in Slots : Build(c)
    \/ \E c \in Slots : DropCmd(c)
    \/ Now
    \/ \E q \in Queues, c \in Slots : Submit(q, c)
    \/ \E q \in Queues, i \in FutSlots, c \in Slots :
          SubmitAfter(q, i, c)
    \/ \E i \in FutSlots, j \in FutSlots : Join(i, j)
    \/ \E i \in FutSlots : ThenSignalSemaphore(i)
    \/ \E ok \in BOOLEAN : Acquire(ok)
    \/ \E i \in FutSlots : DropFuture(i)
    \/ \E i \in FutSlots : ThenSignalFence(i)

SpecSubmit == Init /\ [][SubmitNext]_vars

\* Fences: command buffers with ledgers are submitted on one queue, and the
\* fence is waited on or dropped while the owners drop what they hold.
FenceNext ==
    \/ Record(1, FALSE, <<>>)
    \/ \E c \in Slots : Build(c)
    \/ \E c \in Slots, r \in Pipelines : BindPipeline(c, r)
    \/ \E c \in Slots : DropCmd(c)
    \/ \E r \in Pipelines : DropRes(r)
    \/ ResetBegin(1)
    \/ ResetDrain(1)
    \/ \E c \in Slots : Submit(1, c)
    \/ \E i \in FutSlots, c \in Slots : SubmitAfter(1, i, c)
    \/ \E i \in FutSlots : DropFuture(i)
    \/ \E i \in FutSlots : ThenSignalFence(i)
    \/ \E f \in Fences : GpuComplete(f)
    \/ \E f \in Fences, ok \in BOOLEAN : FenceWait(f, ok)
    \/ \E f \in Fences, ok \in BOOLEAN : FenceDrop(f, ok)

SpecFence == Init /\ [][FenceNext]_vars

\* Levels: one thread records primary and secondary command buffers, executes
\* the secondaries in others, submits the primaries and recycles the handles.
LevelNext ==
    \/ Record(1, FALSE, <<>>)
    \/ Record(1, TRUE, <<>>)
    \/ \E c \in Slots : Build(c)
    \/ \E c \in Slots, s \in Slots : ExecuteCommands(c, <<s>>)
    \/ \E c \in Slots : DropCmd(c)
    \/ ResetBegin(1)
    \/ ResetDrain(1)
    \/ \E c \in Slots : Submit(1, c)
    \/ \E i \in FutSlots : DropFuture(i)
    \/ \E i \in FutSlots : ThenSignalFence(i)
    \/ \E f \in Fences : GpuComplete(f)
    \/ \E f \in Fences : FenceWait(f, TRUE)

SpecLevel == Init /\ [][LevelNext]_vars

\* Waiting: a fence guards a submission, the threads call wait() on it
\* concurrently, and it is dropped when no call is in progress.
WaitNext ==
    \/ Record(1, FALSE, <<>>)
    \/ \E c \in Slots, r \in Pipelines : BindPipeline(c, r)
    \/ \E c \in Slots : Build(c)
    \/ \E c \in Slots : DropCmd(c)
    \/ \E c \in Slots : Submit(1, c)
    \/ \E i \in FutSlots, c \in Slots : SubmitAfter(1, i, c)
    \/ \E i \in FutSlots : ThenSignalFence(i)
    \/ \E f \in Fences : GpuComplete(f)
    \/ \E t \in Threads, f \in Fences, ok \in BOOLEAN : WaitNative(t, f, ok)
    \/ \E t \in Threads, f \in Fences : WaitTake(t, f)
    \/ \E t \in Threads, f \in Fences : WaitRelease(t, f)
    \/ \E f \in Fences, ok \in BOOLEAN : FenceDrop(f, ok)

SpecWait == Init /\ [][WaitNext]_vars

\* Threads: the pool used from every thread, the builders moving between
\* the threads.
ThreadNext ==
    \/ \E t \in Threads : Record(t, FALSE, <<>>)
    \/ \E t \in Threads : Record(t, TRUE, <<>>)
    \/ \E t \in Threads : ResetBegin(t)
    \/ \E t \in Threads : ResetDrain(t)
    \/ \E c \in Slots, t \in Threads : SendBuilder(c, t)
    \/ \E c \in Slots : Draw(c)
    \/ \E c \in Slots : Build(c)
    \/ \E c \in Slots : DropBuilder(c)
    \/ \E c \in Slots : DropCmd(c)

SpecThread == Init /\ [][ThreadNext]_vars

\* Flushing: future graphs of every variant are built and flushed.
FlushNext ==
    \/ Record(1, FALSE, <<>>)
    \/ \E c \in Slots : Build(c)
    \/ Now
    \/ \E q \in Queues, c \in Slots : Submit(q, c)
    \/ \E q \in Queues, i \in FutSlots, c \in Slots : SubmitAfter(q, i, c)
    \/ \E i \in FutSlots, j \in FutSlots : Join(i, j)
    \/ \E i \in FutSlots : ThenSignalSemaphore(i)
    \/ \E ok \in BOOLEAN : Acquire(ok)
    \/ \E i \in FutSlots : Flush(i)
    \/ \E i \in FutSlots : DropFuture(i)

SpecFlush == Init /\ [][FlushNext]_vars

\* Barriers: each thread records a command buffer, and the calls of
\* pipeline_barrier on them interleave.
BarrierNext ==
    \/ \E t \in Threads : Record(t, FALSE, <<>>)
    \/ \E c \in Slots, bars \in BarrierLists : BarrierBegin(c, bars)
    \/ \E c \in Slots : BarrierLoad(c)
    \/ \E c \in Slots : BarrierStore(c)
    \/ \E c \in Slots : BarrierIssue(c)
    \/ \E c \in Slots : Build(c)
    \/ \E c \in Slots : DropCmd(c)

SpecBarrier == Init /\ [][BarrierNext]_vars

\* Queues: command buffers of the pool are submitted, alone and chained, on
\* queues of the pool's family and on a queue of another family.
AllQueues == 1..(NQueues + 1)

QueueNext ==
    \/ Record(1, FALSE, <<>>)
    \/ \E c \in Slots : Build(c)
    \/ \E q \in AllQueues, c \in Slots : Submit(q, c)
    \/ \E q \in AllQueues, i \in FutSlots, c \in Slots : SubmitAfter(q, i, c)
    \/ \E i \in FutSlots : DropFuture(i)
    \/ \E i \in FutSlots : ThenSignalFence(i)

SpecQueue == Init /\ [][QueueNext]_vars

\* Allocation: the threads record at both levels until MaxAllocated handles are
\* allocated, build, abandon and drop the command buffers, and reset.
AllocNext ==
    \/ \E t \in Threads, sec \in BOOLEAN : RecordWithin(t, sec, <<>>, MaxAllocated)
    \/ \E c \in Slots : Build(c)
    \/ \E c \in Slots : DropBuilder(c)
    \/ \E c \in Slots : DropCmd(c)
    \/ \E t \in Threads : ResetBegin(t)
    \/ \E t \in Threads : ResetDrain(t)

SpecAlloc == Init /\ [][AllocNext]_vars

\* Abandoned builders: one thread records, appends copies (whose size check
\* unwinds the builder), builds or drops the builders, drops the command
\* buffers and resets.
AbandonNext ==
    \/ Record(1, FALSE, <<>>)
    \/ \E c \in Slots, src \in Buffers, dst \in Buffers : CopyBuffer(c, src, dst)
    \/ \E c \in Slots : Build(c)
    \/ \E c \in Slots : DropBuilder(c)
    \/ \E c \in Slots : DropCmd(c)
    \/ ResetBegin(1)
    \/ ResetDrain(1)

SpecAbandon == Init /\ [][AbandonNext]_vars

\* Inheritance: one thread records secondary command buffers with and without
\* an inheritance context, builds them, executes them in primaries and drops
\* them, while the caller drops its render pass and framebuffer.
InheritNext ==
    \/ Record(1, FALSE, <<>>)
    \/ \E inh \in {<<>>, <<RPass>>, <<RPass, FBuf>>} : Record(1, TRUE, inh)
    \/ \E c \in Slots : Build(c)
    \/ \E c \in Slots, s \in Slots : ExecuteCommands(c, <<s>>)
    \/ \E c \in Slots : DropCmd(c)
    \/ \E r \in {RPass, FBuf} : DropRes(r)

SpecInherit == Init /\ [][InheritNext]_vars

\* Teardown of fences: command buffers are recorded, built and submitted,
\* fences are made with then_signal_fence and with Fence::new, and a thread
\* drops them; while it is blocked in the native wait the others go on.
TeardownNext ==
    \/ Record(1, FALSE, <<>>)
    \/ \E c \in Slots : Build(c)
    \/ \E c \in Slots : DropCmd(c)
    \/ \E c \in Slots : Submit(1, c)
    \/ \E i \in FutSlots : DropFuture(i)
    \/ \E i \in FutSlots : ThenSignalFence(i)
    \/ \E signalled \in BOOLEAN : FenceNew(signalled)
    \/ \E f \in Fences : GpuComplete(f)
    \/ \E f \in Fences : FenceDropBegin(f)
    \/ \E f \in Fences, ok \in BOOLEAN : FenceDropEnd(f, ok)

\* Every submission completes, and a native wait whose fence is signalled
\* returns.
TeardownFair ==
    \A f \in Fences : WF_vars(GpuComplete(f)) /\ WF_vars(FenceDropEnd(f, TRUE))

SpecTeardown == Init /\ [][TeardownNext]_vars /\ TeardownFair

\* The life of the pool: the threads record, build, abandon, execute and drop
\* command buffers and reset, and the caller drops its Arc of the pool.
LifeNext ==
    \/ \E t \in Threads : Record(t, FALSE, <<>>)
    \/ Record(1, TRUE, <<>>)
    \/ \E c \in Slots : Build(c)
    \/ \E c \in Slots : DropBuilder(c)
    \/ \E c \in Slots, s \in Slots : ExecuteCommands(c, <<s>>)
    \/ \E c \in Slots : DropCmd(c)
    \/ \E t \in Threads : ResetBegin(t)
    \/ \E t \in Threads : ResetDrain(t)
    \/ DropRes(CmdPool)

SpecLife == Init /\ [][LifeNext]_vars

\* Waits: graphs of up to MaxJoined futures joined out of acquired images,
\* with the chains and semaphore signals of the smaller graphs.
WaitsNext ==
    \/ Record(1, FALSE, <<>>)
    \/ \E c \in Slots : Build(c)
    \/ NowWithin(MaxJoined)
    \/ \E ok \in BOOLEAN : AcquireWithin(ok, MaxJoined)
    \/ \E i \in FutSlots, j \in FutSlots : JoinWithin(i, j, MaxJoined)
    \/ \E i \in FutSlots, c \in Slots : SubmitAfter(1, i, c)
    \/ \E i \in FutSlots : ThenSignalSemaphore(i)
    \/ \E i \in FutSlots : DropFuture(i)

SpecWaits == Init /\ [][WaitsNext]_vars

\* --------------------------------------------------------------- claims
\* The builders and built command buffers holding a handle of pool p, level sec.
Holders(p, sec) ==
    {c \in Slots : cb[c].st # "none" /\ cb[c].vk.pool = p /\ cb[c].vk.sec = sec}

\* The handles the native API ever allocated for pool p at level sec.
Allocated(p, sec) == {Handle(p, sec, i) : i \in 1..size[p][sec]}

LiveBuiltOf(p) == {c \in Slots : Built(c) /\ cb[c].vkpool = p}
LiveOf(p) == {c \in Slots : cb[c].st # "none" /\ cb[c].vkpool = p}

\* C1: for every native pool and level, as long as every builder begun on it
\* was built (none was dropped unbuilt), the handles ever allocated are exactly
\* those in the owner's available list, those held by live builders or built
\* command buffers and those in the free-list, each counted once.
C1_HandleAccounting ==
    \A p \in Threads, sec \in BOOLEAN :
        ({h \in leaked : h.pool = p /\ h.sec = sec} = {}) =>
            /\ size[p][sec] =
                  Len(avail[p][sec]) + Cardinality(Holders(p, sec)) + Len(free[p][sec])
            /\ Range(avail[p][sec]) \cup {cb[c].vk : c \in Holders(p, sec)}
                  \cup Range(free[p][sec]) = Allocated(p, sec)

\* C1 witness: a pool with two primary handles, one held and one in the
\* free-list.
C1_Witness ==
    \E p \in Threads :
        /\ leaked = {}
        /\ size[p][FALSE] = 2
        /\ Cardinality(Holders(p, FALSE)) = 1
        /\ Len(free[p][FALSE]) = 1

\* C2: a reset on thread t while a built command buffer of t's native pool is
\* alive faults, issues no native pool reset and moves no handle.
C2_ResetFaultsWhileBuiltAlive ==
    [][\A t \in Threads :
          (last'.op = "reset" /\ last'.t = t /\ LiveBuiltOf(t) # {}) =>
              /\ last'.fault
              /\ "reset_command_pool" \notin Range(last'.calls)
              /\ pc'[t] = "idle"
              /\ avail' = avail
              /\ free' = free]_vars

\* C2 witness: a faulted reset with a built secondary command buffer alive and
\* every primary handle of the pool returned.
C2_Witness ==
    /\ last.op = "reset" /\ last.fault
    /\ \E c \in LiveBuiltOf(last.t) : cb[c].sec
    /\ Len(free[last.t][FALSE]) = size[last.t][FALSE]
    /\ size[last.t][FALSE] > 0

\* C3, as claimed: in a state in which thread t's native pool has no built
\* command buffer alive (and no recording in progress), reset on t does not
\* fault.
C3_ResetSucceedsWhenAllDropped ==
    \A t \in Threads :
        (last.op = "reset" /\ last.t = t /\ LiveOf(t) = {}) => ~last.fault

\* C4: when a reset completes, the pool's free-list entry is empty and every
\* handle ever allocated is in the thread's available list; each of the next
\* size[t][sec] calls of record at a level is served a handle allocated before
\* the reset, without a native allocation.
C4_ResetMakesHandlesAvailable ==
    [][\A t \in Threads :
          /\ (last'.op = "reset_done" /\ last'.t = t) =>
                \A sec \in BOOLEAN :
                    /\ free'[t][sec] = <<>>
                    /\ Len(avail'[t][sec]) = size'[t][sec]
                    /\ Range(avail'[t][sec]) = Allocated(t, sec)
          /\ \A sec \in BOOLEAN :
                (/\ last'.op = (IF sec THEN "record_secondary" ELSE "record")
                 /\ last'.t = t
                 /\ quota[t][sec] > 0) =>
                    /\ size' = size
                    /\ "allocate_command_buffers" \notin Range(last'.calls)
                    /\ \E c \in Slots :
                          /\ cb[c].st = "none" /\ cb'[c].st = "rec"
                          /\ cb'[c].vk \in Allocated(t, sec)]_vars

\* C4 witness: a reset made two primary handles available and record has just
\* handed out the first of them.
C4_Witness ==
    /\ last.op = "record"
    /\ size[last.t][FALSE] = 2
    /\ quota[last.t][FALSE] = 1
    /\ Len(avail[last.t][FALSE]) = 1
    /\ free[last.t][FALSE] = <<>>
    /\ Cardinality(Holders(last.t, FALSE)) = 1

\* C5: whatever a live built command buffer holds in its ledger is alive: a
\* resource has not been destroyed, a secondary command buffer has not been
\* dropped.
C5_LedgerKeepsAlive ==
    \A c \in Slots :
        Built(c) =>
            \A i \in 1..Len(cb[c].resources) :
                LET e == cb[c].resources[i]
                IN  IF e.kind = "CommandBufferSecondary"
                    THEN /\ Built(e.ref) /\ cb[e.ref].sec /\ cb[e.ref].rc > 0
                         /\ cb[e.ref].vk \notin Range(free[cb[e.ref].vkpool][TRUE])
                    ELSE resSt[e.ref] = "alive" /\ resRc[e.ref] > 0

\* C5 witness: a built command buffer is the only owner left of a secondary
\* command buffer, which is the only owner left of a pipeline.
C5_Witness ==
    \E c \in Slots :
        /\ Built(c)
        /\ \E i \in 1..Len(cb[c].resources) :
              /\ cb[c].resources[i].kind = "CommandBufferSecondary"
              /\ ~cb[cb[c].resources[i].ref].user
              /\ \E j \in 1..Len(cb[cb[c].resources[i].ref].resources) :
                    /\ cb[cb[c].resources[i].ref].resources[j].kind = "Pipeline"
                    /\ ~userRes[cb[cb[c].resources[i].ref].resources[j].ref]

\* C6, as claimed: the ledger of every builder and of every built command
\* buffer holds an entry for every resource that a command recorded in it
\* refers to.
C6_LedgerHoldsUsed ==
    \A c \in Slots :
        cb[c].st # "none" => cb[c].used \subseteq Range(cb[c].resources)

\* A future graph that contains a submission.
RECURSIVE HasSubmission(_)
HasSubmission(f) ==
    \/ f.tag \in {"Submit", "SubmitAfter"}
    \/ Len(f.kids) >= 1 /\ HasSubmission(f.kids[1])
    \/ Len(f.kids) >= 2 /\ HasSubmission(f.kids[2])

\* C7, as claimed, for the graphs that contain a submission: then_signal_fence
\* issues exactly one native queue_submit, with the lists of the graph's
\* build_submission and a new fence; no other operation issues one.
C7_ThenSignalFenceSubmitsOnce ==
    /\ (last.op = "then_signal_fence" /\ HasSubmission(last.data[1].chain)) =>
          /\ Cardinality({i \in 1..Len(last.calls) : last.calls[i] = "queue_submit"}) = 1
          /\ "create_fence" \in Range(last.calls)
          /\ Len(last.data[1].submits) = 1
          /\ LET s == BuildSubmission(last.data[1].chain)
                 i == last.data[1].submits[1]
             IN  /\ i.wait_semaphores = s.wait_semaphores
                 /\ i.wait_dst_stage_mask = s.wait_dst_stage_masks
                 /\ i.signal_semaphores = s.signal_semaphores
                 /\ i.command_buffers = s.cmds
                 /\ fence[i.fence].st = "live"
    /\ last.op # "then_signal_fence" => "queue_submit" \notin Range(last.calls)

\* C8, as claimed: a fence made by then_signal_fence on which no wait has
\* returned successfully retains its chain: every command buffer of the chain
\* is alive, its handle is in no free-list, reset of its pool faults, and the
\* resources of its ledger are alive.
C8_FenceRetainsUntilWait ==
    \A f \in Fences :
        (fence[f].st # "none" /\ ~fence[f].waited) =>
            /\ fence[f].prev # NoFuture
            /\ \A c \in ChainCmds(fence[f].prev) :
                  /\ Built(c) /\ cb[c].rc > 0
                  /\ cb[c].vk \notin Range(free[cb[c].vkpool][cb[c].sec])
                  /\ ~ResetAllowed(cb[c].vkpool)
                  /\ \A i \in 1..Len(cb[c].resources) :
                        cb[c].resources[i].kind # "CommandBufferSecondary" =>
                            resSt[cb[c].resources[i].ref] = "alive"

\* Someone other than a chain being released holds the command buffer c: the
\* caller, or a future the caller holds, or a chain retained by a fence.
CmdOwned(c) ==
    /\ Built(c)
    /\ \/ cb[c].user
       \/ \E i \in FutSlots : c \in ChainCmds(fut[i])
       \/ \E g \in Fences : c \in ChainCmds(fence[g].prev)

\* Someone holds the resource r: the caller, or the ledger of a builder or of
\* a command buffer.
ResOwned(r) ==
    \/ userRes[r]
    \/ \E c \in Slots :
          /\ cb[c].st # "none"
          /\ \E i \in 1..Len(cb[c].resources) :
                /\ cb[c].resources[i].kind # "CommandBufferSecondary"
                /\ cb[c].resources[i].ref = r

\* C9, as claimed: when a call of wait() has returned on a fence, the fence
\* retains nothing; every command buffer of its chain that nobody else holds
\* has been dropped and its handle is in the free-list of its pool; every
\* resource of their ledgers that nobody else holds has been destroyed.
C9_WaitReleasesChain ==
    (last.op = "wait" /\ ~last.fault) =>
        /\ fence[last.t].prev = NoFuture
        /\ \A x \in last.data[1].cmds :
              \/ CmdOwned(x.c)
              \/ /\ cb[x.c].st = "none"
                 /\ x.vk \in Range(free[x.vk.pool][x.vk.sec])
                 /\ \A d \in Slots : cb[d].vk # x.vk
        /\ \A r \in last.data[1].res : ResOwned(r) \/ resSt[r] = "destroyed"

\* With one thread waiting the statement of C9 holds, and this state is
\* reached: a wait has returned that dropped a command buffer of the chain
\* and destroyed a pipeline of its ledger, while another command buffer of the
\* chain is still held by the caller.
C9_Witness ==
    /\ last.op = "wait" /\ ~last.fault
    /\ \E x \in last.data[1].cmds : cb[x.c].st = "none"
    /\ \E x \in last.data[1].cmds : Built(x.c) /\ cb[x.c].user
    /\ \E r \in last.data[1].res : resSt[r] = "destroyed"

\* C10, as claimed: a fence that has been dropped had a native wait on it
\* complete before its chain was released.
C10_DropWaitsFirst ==
    \A f \in Fences : fence[f].st = "dropped" => fence[f].waited

\* The futures of a graph: the graph and the futures it owns, at any depth.
RECURSIVE SubFutures(_)
SubFutures(f) ==
    IF f.tag = "none" THEN {}
    ELSE {f} \cup (IF Len(f.kids) >= 1 THEN SubFutures(f.kids[1]) ELSE {})
             \cup (IF Len(f.kids) >= 2 THEN SubFutures(f.kids[2]) ELSE {})

\* Every future alive: in a graph the caller holds or a fence retains.
LiveFutures ==
    UNION ({SubFutures(fut[i]) : i \in FutSlots}
           \cup {SubFutures(fence[g].prev) : g \in Fences})

\* C11: for every join(a, b) whose sides both yield a SubmitState, the join's
\* build_submission yields one whose wait-semaphore, wait-stage,
\* signal-semaphore and command lists are each a's list followed by b's list.
C11_JoinConcatenates ==
    \A j \in LiveFutures :
        j.tag = "Join" =>
            LET a == BuildSubmission(j.kids[1])
                b == BuildSubmission(j.kids[2])
                s == BuildSubmission(j)
            IN  (~a.fault /\ ~b.fault) =>
                    /\ ~s.fault
                    /\ s.wait_semaphores = a.wait_semaphores \o b.wait_semaphores
                    /\ s.wait_dst_stage_masks =
                          a.wait_dst_stage_masks \o b.wait_dst_stage_masks
                    /\ s.signal_semaphores = a.signal_semaphores \o b.signal_semaphores
                    /\ s.cmds = a.cmds \o b.cmds
                    /\ Len(s.wait_semaphores) = Len(s.wait_dst_stage_masks)

\* C11 witness: a join whose left side yields a wait semaphore with its stage
\* and a command, and whose right side yields another command.
C11_Witness ==
    \E j \in LiveFutures :
        /\ j.tag = "Join"
        /\ ~BuildSubmission(j.kids[1]).fault /\ ~BuildSubmission(j.kids[2]).fault
        /\ Len(BuildSubmission(j.kids[1]).wait_semaphores) = 1
        /\ Len(BuildSubmission(j.kids[1]).cmds) = 1
        /\ Len(BuildSubmission(j.kids[2]).cmds) = 1
        /\ BuildSubmission(j.kids[1]).cmds # BuildSubmission(j.kids[2]).cmds

\* C12: a join of two futures that both report a queue, the two queues being
\* different, faults in the constructor: no join is made, the two futures are
\* dropped, no fence is created and no native queue_submit is issued.
C12_JoinConflictFaults ==
    [][(/\ last'.op = "join"
        /\ QueueOf(last'.data[1].left) \in Queues
        /\ QueueOf(last'.data[1].right) \in Queues
        /\ QueueOf(last'.data[1].left) # QueueOf(last'.data[1].right)) =>
           /\ last'.fault
           /\ "queue_submit" \notin Range(last'.calls)
           /\ "create_fence" \notin Range(last'.calls)
           /\ fence' = fence
           /\ \A k \in FutSlots : fut'[k] = fut[k] \/ fut'[k] = NoFuture]_vars

\* C12 witness: a join of a submission on queue 1 with a submission on queue
\* 2 has faulted.
C12_Witness ==
    /\ last.op = "join" /\ last.fault
    /\ QueueOf(last.data[1].left) = 1
    /\ QueueOf(last.data[1].right) = 2
    /\ last.data[1].left.tag = "Submit"

\* C13: the level of a handle is the level of the call that began its command
\* buffer: every handle in the command list of a SubmitState, and of the
\* native queue_submit, was allocated as primary and is held by a command
\* buffer begun with record; every handle passed to the native
\* execute_commands was allocated as secondary and is held by one begun with
\* record_secondary; the lists of a level hold handles of that level only.
C13_LevelsKeptApart ==
    /\ \A c \in Slots : cb[c].st # "none" => cb[c].vk.sec = cb[c].sec
    /\ \A t \in Threads, sec \in BOOLEAN :
          \A h \in Range(avail[t][sec]) \cup Range(free[t][sec]) : h.sec = sec
    /\ \A f \in LiveFutures :
          LET s == BuildSubmission(f)
          IN  ~s.fault =>
                \A h \in Range(s.cmds) :
                    /\ ~h.sec
                    /\ \E c \in Slots : Built(c) /\ cb[c].vk = h /\ ~cb[c].sec
    /\ (last.op = "then_signal_fence" /\ ~last.fault) =>
          \A h \in Range(last.data[1].submits[1].command_buffers) : ~h.sec
    /\ last.op = "execute_commands" =>
          \A h \in Range(last.data[1].cmds) :
              /\ h.sec
              /\ \E c \in Slots : Built(c) /\ cb[c].vk = h /\ cb[c].sec

\* C13 witness: a primary command buffer that executes a secondary one has
\* been submitted.
C13_Witness ==
    /\ last.op = "then_signal_fence" /\ ~last.fault
    /\ \E c \in Slots :
          /\ cb[c].vk \in Range(last.data[1].submits[1].command_buffers)
          /\ \E i \in 1..Len(cb[c].resources) :
                cb[c].resources[i].kind = "CommandBufferSecondary"

\* The operations that issue native calls on the handle of a builder.
BuilderOps ==
    {"build", "begin_render_pass", "bind_descriptor_sets", "bind_pipeline",
     "bind_vertex_buffers", "clear_color_image", "copy_buffer",
     "copy_buffer_to_image", "draw", "end_render_pass", "execute_commands",
     "pipeline_barrier", "push_constants"}

\* C14, as claimed: every native call on a native pool or on a command buffer
\* allocated from it is made by the thread the pool was created for: record
\* and reset act on the caller's own pool, and a builder is recorded into and
\* built on the thread of the pool its handle came from.
C14_OwnerThreadOnly ==
    [][/\ \A c \in Slots :
             (cb[c].st = "none" /\ cb'[c].st = "rec") =>
                 /\ last'.op \in {"record", "record_secondary"}
                 /\ cb'[c].vk.pool = last'.t /\ cb'[c].vkpool = last'.t
       /\ \A t \in Threads : pc'[t] # pc[t] => last'.t = t
       /\ \A c \in Slots :
             (Recording(c) /\ last'.op \in BuilderOps /\ cb'[c] # cb[c]) =>
                 last'.t = cb[c].vk.pool]_vars

\* C15: a command buffer that is dropped has its handle pushed on the
\* free-list entry of the native pool it was allocated from; a reset faults
\* and moves nothing, or goes on to drain that entry into the owner's list;
\* and at every point of every interleaving the handles in a pool's available
\* list and free-list entry are handles of that pool and level, each there
\* once and none of them held by a builder or a command buffer.
C15_DropReturnsToOwnPool ==
    [][/\ \A c \in Slots :
             (Built(c) /\ cb'[c].st = "none") =>
                 cb[c].vk \in Range(free'[cb[c].vk.pool][cb[c].vk.sec])
       /\ \A p \in Threads, sec \in BOOLEAN :
             LET l == avail'[p][sec] \o free'[p][sec]
             IN  /\ \A i \in 1..Len(l) : l[i].pool = p /\ l[i].sec = sec
                 /\ \A i, j \in 1..Len(l) : l[i] = l[j] => i = j
                 /\ \A c \in Slots : cb'[c].st # "none" => cb'[c].vk \notin Range(l)
       /\ \A t \in Threads :
             (last'.op = "reset" /\ last'.t = t) =>
                 IF last'.fault
                 THEN pc'[t] = "idle" /\ avail' = avail /\ free' = free
                 ELSE pc'[t] = "drain" /\ avail' = avail /\ free' = free
       /\ \A t \in Threads :
             (pc[t] = "drain" /\ pc'[t] = "idle") =>
                 \A sec \in BOOLEAN :
                     /\ avail'[t][sec] = avail[t][sec] \o free[t][sec]
                     /\ free'[t][sec] = <<>>]_vars

\* C15 witness: a command buffer of one thread's pool has just been dropped,
\* its handle is in that pool's free-list entry, while the other thread is
\* between the two critical sections of a reset of its own pool.
C15_Witness ==
    \E p \in Threads, q \in Threads :
        /\ p # q
        /\ last.op = "drop_cmd"
        /\ Len(free[p][FALSE]) = 1
        /\ size[p][FALSE] = 1
        /\ pc[q] = "drain"
        /\ size[q][FALSE] = 1

\* C16: copy_buffer(src, dst) with src.size <= dst.size issues the native
\* copy with a region of src.size bytes, pushes src and then dst on the ledger
\* and returns the builder, which build() then turns into a command buffer;
\* with src.size > dst.size it faults with no native call issued and nothing
\* pushed (the builder is consumed, no reference count has grown).
C16_CopyBufferChecksSize ==
    [][/\ \A c \in Slots :
             (Recording(c) /\ last'.op = "copy_buffer" /\ cb'[c] # cb[c]) =>
                 LET a == last'.data[1]
                 IN  IF BufSize(a.src) <= BufSize(a.dst)
                     THEN /\ ~last'.fault
                          /\ last'.calls = <<"cmd_copy_buffer">>
                          /\ a.size = BufSize(a.src)
                          /\ cb'[c].st = "rec"
                          /\ cb'[c].resources =
                                cb[c].resources
                                    \o <<Entry("Buffer", a.src), Entry("Buffer", a.dst)>>
                          /\ resRc'[a.src] > resRc[a.src]
                          /\ resRc'[a.dst] > resRc[a.dst]
                     ELSE /\ last'.fault
                          /\ last'.calls = <<>>
                          /\ cb'[c].st = "none"
                          /\ \A r \in Resources : resRc'[r] <= resRc[r]
       /\ \A c \in Slots :
             (Recording(c) /\ last'.op = "build" /\ cb'[c] # cb[c]) =>
                 /\ ~last'.fault
                 /\ Built(c)'
                 /\ cb'[c].resources = cb[c].resources]_vars

\* C16 witness: a command buffer was built from a builder with a copy of the
\* 64-byte buffer to the 128-byte buffer, and the copy of the 128-byte buffer
\* to the 64-byte buffer has just faulted on a second builder.
C16_Witness ==
    /\ last.op = "copy_buffer" /\ last.fault
    /\ BufSize(last.data[1].src) = 128 /\ BufSize(last.data[1].dst) = 64
    /\ \E c \in Slots :
          /\ Built(c)
          /\ cb[c].resources = <<Entry("Buffer", BufSmall), Entry("Buffer", BufLarge)>>

\* The layout that barrier k of the list bars finds on its image, when the
\* call starts from the layouts lay: the target of the last barrier before it
\* on the same image, or the image's layout at the start.
LayoutBefore(bars, k, lay) ==
    LET js == {j \in 1..(k - 1) : bars[j].img = bars[k].img}
    IN  IF js = {} THEN lay[bars[k].img]
        ELSE bars[CHOOSE j \in js : \A i \in js : i <= j].new_layout

\* The transitions the claim calls registered.
RegisteredPairs ==
    {<<"UNDEFINED", "TRANSFER_DST_OPTIMAL">>,
     <<"TRANSFER_DST_OPTIMAL", "SHADER_READ_ONLY_OPTIMAL">>}

\* C17: a pipeline_barrier call records its barriers in order, each from the
\* layout the image was last given; when every transition is registered the
\* call returns and each image is left in the target of its last barrier (so
\* UNDEFINED -> TRANSFER_DST_OPTIMAL -> SHADER_READ_ONLY_OPTIMAL leaves the
\* image at SHADER_READ_ONLY_OPTIMAL), and when a barrier finds its image in
\* a layout that is no registered start for its target the call faults with
\* no native barrier recorded.
C17_BarrierLayouts ==
    [][last'.op = "pipeline_barrier" =>
          LET bars == last'.data[1].bars
              ok == \A k \in 1..Len(bars) :
                        <<LayoutBefore(bars, k, layout), bars[k].new_layout>>
                            \in RegisteredPairs
          IN  IF ok
              THEN /\ ~last'.fault
                   /\ last'.calls = <<"cmd_pipeline_barrier">>
                   /\ \A k \in 1..Len(bars) :
                         /\ last'.data[1].vks[k].old_layout = LayoutBefore(bars, k, layout)
                         /\ last'.data[1].vks[k].new_layout = bars[k].new_layout
                         /\ \/ \E j \in (k + 1)..Len(bars) : bars[j].img = bars[k].img
                            \/ layout'[bars[k].img] = bars[k].new_layout
                   /\ (\E k \in 1..Len(bars) :
                           /\ LayoutBefore(bars, k, layout) = "TRANSFER_DST_OPTIMAL"
                           /\ bars[k].new_layout = "SHADER_READ_ONLY_OPTIMAL"
                           /\ k = Len(bars)) =>
                         layout'[bars[Len(bars)].img] = "SHADER_READ_ONLY_OPTIMAL"
              ELSE /\ last'.fault
                   /\ last'.calls = <<>>]_vars

\* C17 witness: the image went from UNDEFINED to TRANSFER_DST_OPTIMAL in one
\* recorded call and on to SHADER_READ_ONLY_OPTIMAL in a second, which left it
\* there.
C17_Witness ==
    /\ last.op = "pipeline_barrier" /\ ~last.fault
    /\ Len(last.data[1].bars) = 1
    /\ last.data[1].vks[1].old_layout = "TRANSFER_DST_OPTIMAL"
    /\ layout[Img] = "SHADER_READ_ONLY_OPTIMAL"
    /\ \E c \in Slots : cb[c].st # "none" /\ cb[c].resources = <<Entry("Image", Img)>>
                             /\ cb[c].nops = 1

\* The Arcs of semaphore s held by the futures alive.
SemHeld(s) ==
    LET RECURSIVE InSlots(_)
        InSlots(n) == IF n = 0 THEN 0 ELSE SemCount(fut[n], s) + InSlots(n - 1)
        RECURSIVE InFences(_)
        InFences(n) == IF n = 0 THEN 0 ELSE SemCount(fence[n].prev, s) + InFences(n - 1)
    IN  InSlots(MaxFutures) + InFences(MaxFences)

\* How many times the native call `name` occurs in the calls cs.
CallCount(cs, name) == Cardinality({i \in 1..Len(cs) : cs[i] = name})

\* C18: an acquire_next_image whose native acquire returns an error (such as
\* the timeout) returns it without faulting and makes no future; the one
\* semaphore it created it has destroyed, so the semaphores alive are those
\* alive before, each held by a future.
C18_AcquireTimeoutNoLeak ==
    [][(last'.op = "acquire_next_image" /\ last'.data = <<"Err">>) =>
          /\ ~last'.fault
          /\ fut' = fut
          /\ CallCount(last'.calls, "create_semaphore") = 1
          /\ CallCount(last'.calls, "destroy_semaphore") = 1
          /\ semRc' = semRc
          /\ \A s \in Sems : semRc'[s] = SemHeld(s)']_vars

\* C18 witness: an acquire has returned the error while the caller holds a
\* graph of other futures, and no semaphore is alive.
C18_Witness ==
    /\ last.op = "acquire_next_image" /\ last.data = <<"Err">>
    /\ \A s \in Sems : semRc[s] = 0
    /\ \E i \in FutSlots : fut[i].tag = "Submit"

\* C19: however the calls of wait() on a fence interleave, and on every path
\* of its drop, the chain is taken out of the slot by exactly one call: no
\* second call takes one, the call that takes it leaves the slot empty and
\* holds the whole chain, a fence that has been dropped has had its chain
\* taken and keeps nothing, and a call of wait() or the teardown that takes
\* no chain releases nothing.
C19_ChainReleasedOnce ==
    [][\A f \in Fences :
          /\ fence'[f].takes <= 1
          /\ fence'[f].st = "dropped" =>
                /\ fence'[f].takes = 1
                /\ fence'[f].prev = NoFuture /\ fence'[f].held = NoFuture
          /\ (fence[f].st = "live" /\ fence'[f].takes = fence[f].takes + 1) =>
                /\ fence[f].prev # NoFuture
                /\ fence'[f].prev = NoFuture
                /\ \/ fence'[f].held = fence[f].prev /\ cb' = cb /\ free' = free
                   \/ /\ fence'[f].held = NoFuture
                      /\ cb' = ReleaseFuture(Heap, fence[f].prev).cb
                      /\ free' = ReleaseFuture(Heap, fence[f].prev).free
          /\ (/\ last'.op \in {"wait", "drop_fence"} /\ last'.t = f
              /\ fence[f].st = "live"
              /\ fence'[f].takes = fence[f].takes
              /\ fence[f].held = NoFuture) =>
                /\ cb' = cb /\ free' = free /\ resSt' = resSt /\ resRc' = resRc
                /\ semRc' = semRc
          /\ (fence[f].held # NoFuture /\ fence'[f].held = NoFuture) =>
                /\ cb' = ReleaseFuture(Heap, fence[f].held).cb
                /\ free' = ReleaseFuture(Heap, fence[f].held).free
                /\ resSt' = ReleaseFuture(Heap, fence[f].held).resSt]_vars

\* C19 witness: a call of wait() has found the slot empty and returned while
\* the call of another thread, which took the chain, has not yet dropped it.
C19_Witness ==
    \E f \in Fences :
        /\ last.op = "wait" /\ ~last.fault /\ last.t = f
        /\ last.calls = <<>>
        /\ fence[f].takes = 1
        /\ fence[f].held # NoFuture
        /\ \E t \in Threads : fence[f].wpc[t] = "took"

\* C20: then_signal_semaphore on a future f creates one semaphore and returns
\* a continuation that owns f and a detached SemaphoreFuture, both holding the
\* semaphore; the continuation's build_submission is f's with the semaphore
\* appended after f's signal semaphores, the waits, stages and commands being
\* f's (and it faults where f's does), and its queue is f's.  A semaphore is
\* alive exactly as long as a future holds it: it is destroyed by the drop
\* that takes its last holder away and by no other (the semaphore of a failed
\* acquire apart, which no future ever held).
C20_ThenSignalSemaphore ==
    [][/\ last'.op = "then_signal_semaphore" =>
             \E i \in FutSlots, k \in FutSlots, s \in Sems :
                 /\ i # k
                 /\ fut[i] # NoFuture /\ fut[k] = NoFuture
                 /\ semRc[s] = 0 /\ semRc'[s] = 2
                 /\ \A r \in Sems \ {s} : semRc'[r] = semRc[r]
                 /\ CallCount(last'.calls, "create_semaphore") = 1
                 /\ fut'[i].tag = "SemaphoreSignal"
                 /\ fut'[i].kids = <<fut[i]>> /\ fut'[i].sem = s
                 /\ fut'[k] = Future("Semaphore", 0, 0, s, <<>>)
                 /\ QueueOf(fut'[i]) = QueueOf(fut[i])
                 /\ LET a == BuildSubmission(fut[i])
                        b == BuildSubmission(fut'[i])
                    IN  /\ b.fault = a.fault
                        /\ ~a.fault =>
                              /\ b.signal_semaphores = a.signal_semaphores \o <<s>>
                              /\ b.wait_semaphores = a.wait_semaphores
                              /\ b.wait_dst_stage_masks = a.wait_dst_stage_masks
                              /\ b.cmds = a.cmds
       /\ \A s \in Sems :
             /\ semRc'[s] = SemHeld(s)'
             /\ (semRc[s] > 0 /\ semRc'[s] = 0) =>
                   "destroy_semaphore" \in Range(last'.calls)
       /\ last'.op # "acquire_next_image" =>
             CallCount(last'.calls, "destroy_semaphore") =
                 Cardinality({s \in Sems : semRc[s] > 0 /\ semRc'[s] = 0})]_vars

\* C20 witness: then_signal_semaphore has just been called on a future that
\* already signals another semaphore: the continuation signals that one and
\* then the new one, which the detached future holds too.
C20_Witness ==
    \E i \in FutSlots, k \in FutSlots :
        /\ last.op = "then_signal_semaphore"
        /\ fut[i].tag = "SemaphoreSignal" /\ fut[k].tag = "Semaphore"
        /\ fut[k].sem = fut[i].sem
        /\ semRc[fut[i].sem] = 2
        /\ ~BuildSubmission(fut[i]).fault
        /\ Len(BuildSubmission(fut[i]).signal_semaphores) = 2
        /\ BuildSubmission(fut[i]).signal_semaphores[2] = fut[i].sem
        /\ BuildSubmission(fut[i]).signal_semaphores[1] # fut[i].sem

\* The command buffers of pool thread t's handles that something other than
\* the graph g holds: builders, and built command buffers with more Arcs
\* than g has of them.
HeldOutside(g, t) ==
    {c \in Slots : /\ cb[c].st # "none"
                   /\ cb[c].vk.pool = t
                   /\ (cb[c].st = "rec" \/ cb[c].rc > CmdCount(g, c))}

\* C21: dropping a future graph that was never forced issues no native
\* submit; every command buffer that only the graph references is dropped by
\* it and its handle is in the free-list of its pool and level; and when
\* nothing but the graph held a handle of the thread's pool, the assertions
\* of a reset on that thread hold after the drop.
C21_DropUnforcedGraph ==
    [][last'.op = "drop_future" =>
         LET g == last'.data[1]
         IN  /\ CallCount(last'.calls, "queue_submit") = 0
             /\ fence' = fence
             /\ \A c \in ChainCmds(g) :
                   cb[c].rc = CmdCount(g, c) =>
                     /\ cb'[c].st = "none"
                     /\ Cardinality({k \in 1..Len(free'[cb[c].vkpool][cb[c].sec]) :
                            free'[cb[c].vkpool][cb[c].sec][k] = cb[c].vk}) = 1
                     /\ cb[c].vk \notin Range(free'[cb[c].vkpool][~cb[c].sec])
             /\ \A t \in Threads :
                   (HeldOutside(g, t) = {} /\ leaked = {} /\ pc[t] = "idle")
                       => ResetAllowed(t)']_vars

\* C21 witness: a graph of two submissions, the only holder of its two
\* command buffers, was dropped: both handles are in the free-list and the
\* assertions of reset hold.
C21_Witness ==
    /\ last.op = "drop_future"
    /\ last.data[1].tag = "SubmitAfter"
    /\ last.data[1].kids[1].tag = "Submit"
    /\ last.data[1].cmd # last.data[1].kids[1].cmd
    /\ \A c \in Slots : cb[c].st = "none"
    /\ Len(free[1][FALSE]) = 2
    /\ size[1][FALSE] = 2
    /\ ResetAllowed(1)

\* The semaphore-wait leaves alive: SemaphoreFuture and AcquireFuture.
WaitLeaves == {f \in LiveFutures : f.tag \in {"Semaphore", "Acquire"}}

\* What a semaphore-wait leaf is to yield: one wait on its semaphore with a
\* destination stage, no signal and no command.
IsWaitOn(s, sem) ==
    /\ ~s.fault
    /\ s.wait_semaphores = <<sem>>
    /\ Len(s.wait_dst_stage_masks) = 1
    /\ s.signal_semaphores = <<>>
    /\ s.cmds = <<>>

\* C22: of every semaphore-wait leaf (SemaphoreFuture, AcquireFuture),
\* build_submission yields a SubmitState with exactly one wait on its
\* semaphore paired with a stage, no commands and no signals, and queue()
\* returns None without faulting; a join with such a leaf on either side
\* does not fault.
C22_WaitLeafUsable ==
    [][/\ \A f \in WaitLeaves' :
             /\ IsWaitOn(BuildSubmission(f), f.sem)
             /\ QueueOf(f) = NoQueue
       /\ (/\ last'.op = "join"
           /\ \/ last'.data[1].left.tag \in {"Semaphore", "Acquire"}
              \/ last'.data[1].right.tag \in {"Semaphore", "Acquire"})
              => ~last'.fault]_vars

\* C23: flush on a future of any variant (a leaf submission, a chained
\* submission, a join, a semaphore-signal wrapper, a semaphore-wait leaf, an
\* acquire future) completes without faulting.
C23_FlushDefined ==
    [][last'.op = "flush" => ~last'.fault]_vars

\* C24: push_constants with a value whose size is not a multiple of 4, or
\* with empty stage flags, faults, having issued no native call and added
\* nothing to a ledger; otherwise it issues the native push-constants call
\* and adds the pipeline layout to the ledger of the builder.
C24_PushConstantsChecks ==
    [][last'.op = "push_constants" =>
         LET a == last'.data[1]
             e == Entry("PipelineLayout", a.layout)
         IN  IF a.size % 4 # 0 \/ a.stage_flags = {}
             THEN /\ last'.fault
                  /\ last'.calls = <<>>
                  /\ resRc'[a.layout] <= resRc[a.layout]
                  /\ \A c \in Slots :
                        cb'[c].resources = cb[c].resources \/ cb'[c] = NoCmd
             ELSE /\ ~last'.fault
                  /\ last'.calls = <<"cmd_push_constants">>
                  /\ resRc'[a.layout] = resRc[a.layout] + 1
                  /\ \E c \in Slots :
                        /\ Recording(c)
                        /\ cb'[c].resources = Append(cb[c].resources, e)
                        /\ \A d \in Slots \ {c} : cb'[d] = cb[d]]_vars

\* C24 witness: a push of 6 bytes with a stage flag has faulted.
C24_Witness ==
    /\ last.op = "push_constants"
    /\ last.fault
    /\ last.data[1].size = 6
    /\ last.data[1].stage_flags # {}

\* C25: copy_buffer_to_image faults, having issued no native call, whenever
\* the source buffer has more elements than the destination image has
\* texels; and the extent of every copy it records lies within the
\* destination image.
C25_CopyToImageWithinImage ==
    [][last'.op = "copy_buffer_to_image" =>
         LET a == last'.data[1]
         IN  /\ BufLen(a.src) > ImageLen(a.dst) =>
                   last'.fault /\ last'.calls = <<>>
             /\ ~last'.fault =>
                   \A k \in 1..3 : a.image_extent[k] <= ImageSize(a.dst)[k]]_vars

\* The fixed table of the claim: the access-mask pair of each transition.
AccessPair(old, new) ==
    CASE old = "UNDEFINED" /\ new = "TRANSFER_DST_OPTIMAL" ->
            <<"empty", "TRANSFER_WRITE">>
      [] old = "TRANSFER_DST_OPTIMAL" /\ new = "SHADER_READ_ONLY_OPTIMAL" ->
            <<"TRANSFER_WRITE", "SHADER_READ">>
      [] OTHER -> <<"none", "none">>

\* C26: in a pipeline_barrier call recorded by one thread, the native barrier
\* of each image transition carries as old layout the layout the image had
\* when the transition was processed, as new layout the requested one, and
\* the access masks of the table; once the native call is recorded each
\* image's layout is the new layout of its last transition; and nothing else
\* changes a layout, so the next barrier on the image starts from it.
C26_BarrierCarriesLayouts ==
    [][/\ (last'.op = "pipeline_barrier" /\ ~last'.fault) =>
            LET bars == last'.data[1].bars
                vks == last'.data[1].vks
            IN  /\ last'.calls = <<"cmd_pipeline_barrier">>
                /\ Len(vks) = Len(bars)
                /\ \A k \in 1..Len(bars) :
                      /\ vks[k].image = bars[k].img
                      /\ vks[k].old_layout = LayoutBefore(bars, k, layout)
                      /\ vks[k].new_layout = bars[k].new_layout
                      /\ <<vks[k].src_access_mask, vks[k].dst_access_mask>>
                            = AccessPair(vks[k].old_layout, vks[k].new_layout)
                      /\ \/ \E j \in (k + 1)..Len(bars) : bars[j].img = bars[k].img
                         \/ layout'[bars[k].img] = bars[k].new_layout
       /\ last'.op # "pipeline_barrier" => layout' = layout]_vars

\* C26 witness: one call has recorded UNDEFINED -> TRANSFER_DST_OPTIMAL and
\* TRANSFER_DST_OPTIMAL -> SHADER_READ_ONLY_OPTIMAL on the image, the second
\* barrier starting from the layout the first one stored.
C26_Witness ==
    /\ last.op = "pipeline_barrier" /\ ~last.fault
    /\ Len(last.data[1].vks) = 2
    /\ last.data[1].vks[1].old_layout = "UNDEFINED"
    /\ last.data[1].vks[2].old_layout = "TRANSFER_DST_OPTIMAL"
    /\ last.data[1].vks[2].src_access_mask = "TRANSFER_WRITE"
    /\ last.data[1].vks[2].dst_access_mask = "SHADER_READ"
    /\ layout[Img] = "SHADER_READ_ONLY_OPTIMAL"

\* C27: a pipeline_barrier call that faults on an unrecognized (old, new)
\* pair issues no native barrier and leaves the layout of every image named
\* in the call as it was before the call.
C27_FaultingBarrierKeepsLayouts ==
    [][(last'.op = "pipeline_barrier" /\ last'.fault) =>
          /\ last'.calls = <<>>
          /\ \A k \in 1..Len(last'.data[1].bars) :
                layout'[last'.data[1].bars[k].img] = layout[last'.data[1].bars[k].img]]_vars

\* C28: whatever the interleaving of the threads recording barriers on an
\* image, the barriers recorded on it form one chain (the old layout of each
\* is the new layout of the one recorded before it, UNDEFINED for the first)
\* and, when no call is in progress, the image's layout is the new layout of
\* the last barrier recorded.
C28_BarriersFormOneChain ==
    \A i \in Images :
       /\ \A k \in 1..Len(recorded[i]) :
             recorded[i][k].old_layout =
                 IF k = 1 THEN "UNDEFINED" ELSE recorded[i][k - 1].new_layout
       /\ (recorded[i] # <<>> /\ \A c \in Slots : cb[c].st # "barrier") =>
             layout[i] = recorded[i][Len(recorded[i])].new_layout

\* Two calls that never fault have each loaded UNDEFINED before either
\* stored: both native barriers recorded on the image start from UNDEFINED.
C28_BothFromUndefined ==
    /\ leaked = {}
    /\ Len(recorded[Img]) = 2
    /\ recorded[Img][1].old_layout = "UNDEFINED"
    /\ recorded[Img][2].old_layout = "UNDEFINED"

\* C29: in every native queue_submit issued by then_signal_fence, the
\* command buffers submitted come from a pool of the family of the queue
\* submitted to, and every future of the chain that reports a queue reports
\* that queue (a chained submission on another queue than its predecessor's
\* never reaches the native submit); submit and submit_after fault when the
\* family of the command buffer's pool is not the queue's.
C29_SubmissionOnOneQueue ==
    [][/\ (last'.op = "then_signal_fence" /\ CallCount(last'.calls, "queue_submit") > 0) =>
            LET info == last'.data[1].submits[1]
                chain == last'.data[1].chain
            IN  /\ info.command_buffers # <<>> => QueueFamilyOf(info.queue) = PoolFamily
                /\ \A g \in SubFutures(chain) :
                      QueueOf(g) \in AllQueues => QueueOf(g) = info.queue
       /\ (/\ last'.op \in {"submit", "submit_after"}
           /\ QueueFamilyOf(last'.data[1].queue) # PoolFamily) => last'.fault]_vars

\* The queues the sides of the join f report.
SideQueues(f) == {QueueOf(f.kids[k]) : k \in 1..2} \cap Queues

\* C30: a join of which at least one side reports a queue reports that
\* queue, whichever side it is, and then_signal_fence on such a join whose
\* sides yield a SubmitState performs its submission on that queue.
C30_JoinReportsEitherQueue ==
    [][/\ \A f \in LiveFutures' :
             f.tag = "Join" => \A q \in SideQueues(f) : QueueOf(f) = q
       /\ (/\ last'.op = "then_signal_fence"
           /\ last'.data[1].chain.tag = "Join"
           /\ SideQueues(last'.data[1].chain) # {}
           /\ ~BuildSubmission(last'.data[1].chain).fault) =>
              /\ ~last'.fault
              /\ CallCount(last'.calls, "queue_submit") = 1
              /\ last'.data[1].submits[1].queue \in SideQueues(last'.data[1].chain)]_vars

\* The handles of a chain of submissions in the order the chain was built:
\* the leaf submission first, each chained submission after its predecessor.
RECURSIVE ChainOrder(_)
ChainOrder(f) ==
    IF f.tag = "SubmitAfter" THEN Append(ChainOrder(f.kids[1]), cb[f.cmd].vk)
    ELSE IF f.tag = "Submit" THEN <<cb[f.cmd].vk>>
    ELSE <<>>

\* A future made of submissions only.
RECURSIVE IsChain(_)
IsChain(f) ==
    \/ f.tag = "Submit"
    \/ f.tag = "SubmitAfter" /\ IsChain(f.kids[1])

\* C31: build_submission of submit(cmd) is a SubmitState with the one
\* command cmd and no waits or signals; build_submission of
\* submit_after(prev, cmd) is prev's SubmitState with cmd's handle appended
\* as the last command, waits and signals unchanged; so the commands of a
\* chain come in the order in which the chain was built.
C31_ChainBuildsInOrder ==
    \A f \in LiveFutures :
       LET s == BuildSubmission(f)
       IN  /\ f.tag = "Submit" =>
                /\ ~s.fault
                /\ s.cmds = <<cb[f.cmd].vk>>
                /\ s.wait_semaphores = <<>> /\ s.wait_dst_stage_masks = <<>>
                /\ s.signal_semaphores = <<>>
           /\ (f.tag = "SubmitAfter" /\ ~BuildSubmission(f.kids[1]).fault) =>
                LET p == BuildSubmission(f.kids[1])
                IN  /\ ~s.fault
                    /\ s.cmds = p.cmds \o <<cb[f.cmd].vk>>
                    /\ s.wait_semaphores = p.wait_semaphores
                    /\ s.wait_dst_stage_masks = p.wait_dst_stage_masks
                    /\ s.signal_semaphores = p.signal_semaphores
           /\ IsChain(f) => s.cmds = ChainOrder(f)

\* C31 witness: a chain of two submissions of different command buffers on
\* top of an acquire future: the wait of the acquire and the two handles in
\* the order of the chain.
C31_Witness ==
    \E i \in FutSlots :
       /\ fut[i].tag = "SubmitAfter"
       /\ fut[i].kids[1].tag = "SubmitAfter"
       /\ fut[i].kids[1].kids[1].tag = "Acquire"
       /\ fut[i].cmd # fut[i].kids[1].cmd
       /\ BuildSubmission(fut[i]).cmds = <<cb[fut[i].kids[1].cmd].vk, cb[fut[i].cmd].vk>>
       /\ Len(BuildSubmission(fut[i]).wait_semaphores) = 1

RECURSIVE Pow2(_)
Pow2(k) == IF k = 0 THEN 1 ELSE 2 * Pow2(k - 1)

\* The number of native allocations after which n handles are allocated, 0
\* for none; MaxAllocated + 1 when no number of allocations gives n.
Allocations(n) ==
    IF n = 0 THEN 0
    ELSE IF \E k \in 1..MaxAllocated : Pow2(k - 1) = n
         THEN CHOOSE k \in 1..MaxAllocated : Pow2(k - 1) = n
         ELSE MaxAllocated + 1

\* C32: record and record_secondary on thread t take the last handle of t's
\* available list of the level when the list is non-empty, without a native
\* allocation; when it is empty they allocate once, 1 handle the first time
\* and as many as were allocated so far afterwards, hand out one handle of the
\* new batch and leave the others in the list; after k allocations 2^(k-1)
\* handles are allocated.
C32_BatchDoubling ==
    [][\A t \in Threads, sec \in BOOLEAN :
          (/\ last'.op = (IF sec THEN "record_secondary" ELSE "record")
           /\ last'.t = t) =>
             \E c \in Slots :
                /\ cb[c].st = "none" /\ cb'[c].st = "rec"
                /\ IF Len(avail[t][sec]) > 0
                   THEN /\ CallCount(last'.calls, "allocate_command_buffers") = 0
                        /\ size'[t][sec] = size[t][sec]
                        /\ cb'[c].vk = avail[t][sec][Len(avail[t][sec])]
                        /\ avail'[t][sec] = SubSeq(avail[t][sec], 1, Len(avail[t][sec]) - 1)
                   ELSE /\ CallCount(last'.calls, "allocate_command_buffers") = 1
                        /\ size'[t][sec] - size[t][sec]
                              = (IF size[t][sec] = 0 THEN 1 ELSE size[t][sec])
                        /\ Allocations(size'[t][sec]) = Allocations(size[t][sec]) + 1
                        /\ size'[t][sec] = Pow2(Allocations(size'[t][sec]) - 1)
                        /\ cb'[c].vk \in Allocated(t, sec)' \ Allocated(t, sec)
                        /\ Range(avail'[t][sec])
                              = (Allocated(t, sec)' \ Allocated(t, sec)) \ {cb'[c].vk}
                        /\ Len(avail'[t][sec]) = size'[t][sec] - size[t][sec] - 1]_vars

\* C32 witness: the third allocation of a thread at a level has just
\* happened: 4 handles are allocated, one of the two new ones is with the
\* builder and the other in the list.
C32_Witness ==
    \E sec \in BOOLEAN :
       /\ last.op = (IF sec THEN "record_secondary" ELSE "record")
       /\ CallCount(last.calls, "allocate_command_buffers") = 1
       /\ size[last.t][sec] = 4
       /\ Len(avail[last.t][sec]) = 1

\* C33: when a recording builder goes away without build() (dropped by the
\* caller, or unwound by the fault of an append operation), its handle is in
\* the owner's available list or in the free-list afterwards, every handle
\* allocated is still in a list or held, and a reset on a thread none of whose
\* command buffers or builders is alive does not fault.
C33_DroppedBuilderKeepsHandle ==
    [][/\ \A c \in Slots :
             (Recording(c) /\ cb'[c].st = "none") =>
                LET h == cb[c].vk
                IN  /\ h \in Range(avail'[h.pool][h.sec]) \cup Range(free'[h.pool][h.sec])
                    /\ Len(avail'[h.pool][h.sec]) + Len(free'[h.pool][h.sec])
                          + Cardinality(Holders(h.pool, h.sec)') = size'[h.pool][h.sec]
       /\ \A t \in Threads :
             (last'.op = "reset" /\ last'.t = t /\ LiveOf(t) = {}) => ~last'.fault]_vars

\* C34: the handle that record or record_secondary hands out is, before the
\* call, held by no builder and no built command buffer and is in no
\* free-list, and if it was allocated before the call it is in the owner's
\* available list; a handle allocated earlier enters an available list only
\* when a reset of the owning thread moves it there from the free-list, and
\* enters the free-list only when the built command buffer holding it is
\* dropped.
C34_HandleNotHandedOutWhileHeld ==
    [][/\ \A c \in Slots :
             (cb[c].st = "none" /\ cb'[c].st = "rec") =>
                LET h == cb'[c].vk
                IN  /\ \A e \in Slots : cb[e].st # "none" => cb[e].vk # h
                    /\ \A p \in Threads, sec \in BOOLEAN : h \notin Range(free[p][sec])
                    /\ h \in Allocated(h.pool, h.sec) => h \in Range(avail[h.pool][h.sec])
       /\ \A p \in Threads, sec \in BOOLEAN :
             /\ \A h \in (Range(avail'[p][sec]) \ Range(avail[p][sec])) \cap Allocated(p, sec) :
                   /\ last'.op = "reset_done" /\ last'.t = p
                   /\ h \in Range(free[p][sec])
             /\ \A h \in Range(free'[p][sec]) \ Range(free[p][sec]) :
                   \E c \in Slots : Built(c) /\ cb[c].vk = h /\ cb'[c].st = "none"]_vars

\* C34 witness: record has just handed out a handle without allocating while
\* the thread's other handle is held too: both were held before, dropped and
\* moved back by a reset.
C34_Witness ==
    /\ last.op = "record"
    /\ CallCount(last.calls, "allocate_command_buffers") = 0
    /\ size[last.t][FALSE] = 2
    /\ Cardinality(Holders(last.t, FALSE)) = 2
    /\ \A c \in Holders(last.t, FALSE), e \in Holders(last.t, FALSE) :
          c # e => cb[c].vk # cb[e].vk

\* C35: build() of a secondary builder recorded with an inheritance context
\* releases none of the context's references: the render pass and the
\* framebuffer are alive when the command buffer comes to exist and it holds
\* them from then on.
C35_InheritanceKeptAlive ==
    [][\A c \in Slots :
          (Recording(c) /\ cb[c].sec /\ cb'[c].st = "built") =>
             \A i \in 1..Len(cb[c].inherit) :
                /\ resSt'[cb[c].inherit[i]] = "alive"
                /\ resRc'[cb[c].inherit[i]] >= resRc[cb[c].inherit[i]]]_vars

\* C36: the drop of a fence terminates, whether the fence comes from
\* then_signal_fence or from Fence::new, signalled or not.
C36_FenceDropTerminates ==
    \A f \in Fences : (fence[f].st = "dropping") ~> (fence[f].st = "dropped")

\* C37: as long as the caller, a builder or a built command buffer holds the
\* pool, the pool is alive; the step that takes the last of them away
\* destroys every native pool created, each once, and no other step destroys
\* one; a built command buffer that is dropped finds the free-list entry of
\* its native pool and leaves its handle there.
C37_PoolsDestroyedOnceAtDrop ==
    [][/\ (userRes'[CmdPool] \/ \E c \in Slots : cb'[c].st # "none") =>
             /\ resSt'[CmdPool] = "alive"
             /\ CallCount(last'.calls, "destroy_command_pool") = 0
       /\ (resSt[CmdPool] = "alive" /\ resSt'[CmdPool] = "destroyed") =>
             CallCount(last'.calls, "destroy_command_pool")
                = Cardinality({t \in Threads : created[t]})
       /\ resSt[CmdPool] = "destroyed" =>
             CallCount(last'.calls, "destroy_command_pool") = 0
       /\ (~userRes'[CmdPool] /\ \A c \in Slots : cb'[c].st = "none") =>
             resSt'[CmdPool] = "destroyed"
       /\ \A c \in Slots :
             (Built(c) /\ cb'[c].st = "none") =>
                /\ created[cb[c].vkpool]
                /\ resSt[CmdPool] = "alive"
                /\ cb[c].vk \in Range(free'[cb[c].vkpool][cb[c].sec])]_vars

\* C37 witness: the caller had dropped its Arc of the pool while a command
\* buffer was alive; the drop of that command buffer has just destroyed the
\* native pools of both threads.
C37_Witness ==
    /\ last.op = "drop_cmd"
    /\ resSt[CmdPool] = "destroyed"
    /\ CallCount(last.calls, "destroy_command_pool") = 2
    /\ \A t \in Threads : created[t]

\* The waits a graph registers, leaf by leaf from left to right: the semaphore
\* of each acquired image with the stage given with it.
RECURSIVE WaitsOf(_)
WaitsOf(f) ==
    IF f.tag = "Acquire" THEN <<[sem |-> f.sem, stage |-> "COLOR_ATTACHMENT_OUTPUT"]>>
    ELSE IF f.tag \in {"SubmitAfter", "SemaphoreSignal"} THEN WaitsOf(f.kids[1])
    ELSE IF f.tag = "Join" THEN WaitsOf(f.kids[1]) \o WaitsOf(f.kids[2])
    ELSE <<>>

\* C38: in the SubmitState of every future alive that yields one, the list of
\* wait semaphores and the list of wait stages have the same length, and the
\* i-th semaphore and the i-th stage are those of the i-th wait registered.
C38_WaitsPairedWithStages ==
    \A f \in LiveFutures :
       LET s == BuildSubmission(f)
       IN  ~s.fault =>
              /\ Len(s.wait_semaphores) = Len(s.wait_dst_stage_masks)
              /\ Len(s.wait_semaphores) = Len(WaitsOf(f))
              /\ \A i \in 1..Len(WaitsOf(f)) :
                    /\ s.wait_semaphores[i] = WaitsOf(f)[i].sem
                    /\ s.wait_dst_stage_masks[i] = WaitsOf(f)[i].stage

\* C38 witness: a join of a join that brings the waits of two acquired
\* images, each with its stage.
C38_Witness ==
    \E i \in FutSlots :
       /\ fut[i].tag = "Join"
       /\ fut[i].kids[1].tag = "Join"
       /\ ~BuildSubmission(fut[i]).fault
       /\ Len(BuildSubmission(fut[i]).wait_semaphores) = 2
       /\ BuildSubmission(fut[i]).wait_semaphores[1] # BuildSubmission(fut[i]).wait_semaphores[2]
       /\ Len(BuildSubmission(fut[i]).wait_dst_stage_masks) = 2

====
